---- MODULE Spec2Model ----
(***************************************************************************)
(* Model of the commit-message generation pipeline of commitment-rs:       *)
(* generate_commit_message (src/lib.rs) and the three agent executors      *)
(* (src/agents/{mod,claude,codex,gemini}.rs).                              *)
(*                                                                         *)
(* A Rust String is modelled as the sequence of its UTF-8 bytes, so that   *)
(* as_bytes() is the view it is in Rust and from_utf8_lossy is a real      *)
(* decoding step.                                                          *)
(*                                                                         *)
(* Time is wall-clock seconds.  Events of the environment (the `which`     *)
(* lookup, the agent child) are observed on a grid of TickSecs seconds.    *)
(* The executor's own steps take no time: while one of them is enabled the *)
(* clock does not advance.                                                 *)
(***************************************************************************)
EXTENDS Integers, Sequences, FiniteSets, TLC

\* ------------------------------------------------------------------ bounds
\* Granularity of the clock, in seconds.
TickSecs == 40
\* The `which` lookup is observed for at most this many clock steps.
MaxWhichTicks == 1
\* Longest response, in tokens of CleanTokens, given to clean_ai_response.
MaxTokens == 4
\* Diffs given to truncate_diff start with MAX_DIFF_LENGTH - MaxSlack to
\* MAX_DIFF_LENGTH + 1 one-byte characters ...
MaxSlack == 4
\* ... and end with up to MaxTail one-byte characters.
MaxTail == 1

\* ------------------------------------------------------- program constants
\* agents/mod.rs:34 (and codex.rs:8, gemini.rs:7): Duration::from_secs(120)
AGENT_TIMEOUT == 120

AgentNames == {"Claude", "Codex", "Gemini"}

\* The literal executable name of an agent (AgentName::command_name).
command_name(a) ==
  CASE a = "Claude" -> "claude"
    [] a = "Codex"  -> "codex"
    [] a = "Gemini" -> "gemini"

\* ------------------------------------------------------------------- texts
\* "failed to write to stdin: "
WriteErrPrefix == <<102, 97, 105, 108, 101, 100, 32, 116, 111, 32, 119, 114, 105, 116, 101, 32, 116, 111, 32, 115, 116, 100, 105, 110, 58, 32>>
\* "failed to flush stdin: "
FlushErrPrefix == <<102, 97, 105, 108, 101, 100, 32, 116, 111, 32, 102, 108, 117, 115, 104, 32, 115, 116, 100, 105, 110, 58, 32>>
\* "unexpected error: "
UnexpectedPrefix == <<117, 110, 101, 120, 112, 101, 99, 116, 101, 100, 32, 101, 114, 114, 111, 114, 58, 32>>

\* io::Error texts (e.to_string()) the operating system can produce.
\* "Broken pipe (os error 32)"
EPIPE == <<66, 114, 111, 107, 101, 110, 32, 112, 105, 112, 101, 32, 40, 111, 115, 32, 101, 114, 114, 111, 114, 32, 51, 50, 41>>
\* "Permission denied (os error 13)"
EACCES == <<80, 101, 114, 109, 105, 115, 115, 105, 111, 110, 32, 100, 101, 110, 105, 101, 100, 32, 40, 111, 115, 32, 101, 114, 114, 111, 114, 32, 49, 51, 41>>
\* "No such file or directory (os error 2)"
ENOENT == <<78, 111, 32, 115, 117, 99, 104, 32, 102, 105, 108, 101, 32, 111, 114, 32, 100, 105, 114, 101, 99, 116, 111, 114, 121, 32, 40, 111, 115, 32, 101, 114, 114, 111, 114, 32, 50, 41>>
\* "Input/output error (os error 5)"
EIO == <<73, 110, 112, 117, 116, 47, 111, 117, 116, 112, 117, 116, 32, 101, 114, 114, 111, 114, 32, 40, 111, 115, 32, 101, 114, 114, 111, 114, 32, 53, 41>>

\* Byte streams an agent child may have produced on stdout / stderr:
\* "", "feat: add x", "  fix: y \n" (untrimmed), "ok " followed by the
\* invalid byte FF and the truncated three-byte sequence E2 82, and
\* "FEAT: oops".
StdoutSamples ==
  { <<>>,
    <<102, 101, 97, 116, 58, 32, 97, 100, 100, 32, 120>>,
    <<32, 32, 102, 105, 120, 58, 32, 121, 32, 10>>,
    <<111, 107, 32, 255, 226, 130>>,
    <<70, 69, 65, 84, 58, 32, 111, 111, 112, 115>> }
\* "", "auth failed\n", and the bytes FF 'e'.
StderrSamples ==
  { <<>>,
    <<97, 117, 116, 104, 32, 102, 97, 105, 108, 101, 100, 10>>,
    <<255, 101>> }

\* ------------------------------------------------- String::from_utf8_lossy
\* U+FFFD REPLACEMENT CHARACTER in UTF-8.
REPLACEMENT == <<239, 191, 189>>

IsCont(b) == b >= 128 /\ b <= 191

\* Number of bytes of the UTF-8 sequence a lead byte announces (0: the byte
\* cannot start a sequence).
Utf8Width(b) ==
  IF b < 128 THEN 1
  ELSE IF b >= 194 /\ b <= 223 THEN 2
  ELSE IF b >= 224 /\ b <= 239 THEN 3
  ELSE IF b >= 240 /\ b <= 244 THEN 4
  ELSE 0

\* Whether c is an admissible second byte after lead byte b.
SecondOk(b, c) ==
  CASE b = 224 -> c >= 160 /\ c <= 191
    [] b = 237 -> c >= 128 /\ c <= 159
    [] b = 240 -> c >= 144 /\ c <= 191
    [] b = 244 -> c >= 128 /\ c <= 143
    [] OTHER   -> IsCont(c)

\* Length of the longest prefix of s[i..] that is a prefix of one valid
\* sequence started by s[i] (at least 1).
RECURSIVE GoodPrefix(_, _, _, _)
GoodPrefix(s, i, k, w) ==
  IF k >= w \/ i + k > Len(s) THEN k
  ELSE IF k = 1
         THEN IF SecondOk(s[i], s[i + 1]) THEN GoodPrefix(s, i, 2, w) ELSE k
         ELSE IF IsCont(s[i + k]) THEN GoodPrefix(s, i, k + 1, w) ELSE k

RECURSIVE Lossy(_, _)
Lossy(s, i) ==
  IF i > Len(s) THEN <<>>
  ELSE LET w == Utf8Width(s[i]) IN
       IF w = 0 THEN REPLACEMENT \o Lossy(s, i + 1)
       ELSE LET k == GoodPrefix(s, i, 1, w) IN
            IF k = w THEN SubSeq(s, i, i + w - 1) \o Lossy(s, i + w)
            ELSE REPLACEMENT \o Lossy(s, i + k)

\* String::from_utf8_lossy(bytes).to_string()
from_utf8_lossy(bytes) == Lossy(bytes, 1)

\* ------------------------------------------------------------ error values
\* error.rs AgentError; every value carries the same fields so that values
\* of different variants can be compared.
NoError == [kind |-> "None", agent |-> "None", stderr |-> <<>>, timeout_secs |-> 0]
NotFound(a) == [kind |-> "NotFound", agent |-> a, stderr |-> <<>>, timeout_secs |-> 0]
ExecutionFailed(a, text) ==
  [kind |-> "ExecutionFailed", agent |-> a, stderr |-> text, timeout_secs |-> 0]
Timeout(a, secs) == [kind |-> "Timeout", agent |-> a, stderr |-> <<>>, timeout_secs |-> secs]

\* Result<String, AgentError>
NoResult == [tag |-> "None", value |-> <<>>, err |-> NoError]
Ok(v) == [tag |-> "Ok", value |-> v, err |-> NoError]
Err(e) == [tag |-> "Err", value |-> <<>>, err |-> e]

\* error.rs GitError; every value carries the same fields.
NoGitError ==
  [kind |-> "None", command |-> <<>>, stderr |-> <<>>, path |-> <<>>,
   io |-> <<>>]
NoStagedChanges == [NoGitError EXCEPT !.kind = "NoStagedChanges"]
CommandFailed(command, text) ==
  [NoGitError EXCEPT !.kind = "CommandFailed", !.command = command,
                     !.stderr = text]
WorktreeResolution(path) ==
  [NoGitError EXCEPT !.kind = "WorktreeResolution", !.path = path]
Io(e) == [NoGitError EXCEPT !.kind = "Io", !.io = e]

\* Errors a GitProvider may return besides NoStagedChanges:
\* CommandFailed{"git diff --cached", "fatal: bad index\n"},
\* WorktreeResolution{".git"} and Io(permission denied).
GitFailures ==
  { CommandFailed(<<103, 105, 116, 32, 100, 105, 102, 102, 32, 45, 45, 99, 97, 99, 104, 101, 100>>,
                  <<102, 97, 116, 97, 108, 58, 32, 98, 97, 100, 32, 105, 110, 100, 101, 120, 10>>),
    WorktreeResolution(<<46, 103, 105, 116>>),
    Io(EACCES) }

\* Result<ConventionalCommit, GeneratorError> of generate_commit_message;
\* validation is the String of GeneratorError::Validation, commit the text
\* of the ConventionalCommit of Ok.
GenNone ==
  [tag |-> "None", agent_err |-> NoError, git_err |-> NoGitError,
   validation |-> <<>>, commit |-> <<>>]
\* GenAgent turning every agent error into an execution failure.
GenAgent_Flattened(e) ==
  [GenNone EXCEPT !.tag = "Agent",
                  !.agent_err = ExecutionFailed(e.agent, e.stderr)]
\* impl From<AgentError> for GeneratorError (#[from])
GenAgent(e) == [GenNone EXCEPT !.tag = "Agent", !.agent_err = e]
\* impl From<GitError> for GeneratorError (#[from])
GenGit(e) == [GenNone EXCEPT !.tag = "Git", !.git_err = e]
\* GeneratorError::Validation(String)
GenValidation(text) ==
  [GenNone EXCEPT !.tag = "Validation", !.validation = text]
\* Ok(commit)
GenOk(c) == [GenNone EXCEPT !.tag = "Ok", !.commit = c.raw]

\* --------------------------------------------------- per-agent conventions
\* Which helper an agent's execute() calls, and with which agent tag.

\* CheckNotFound with the Gemini copy still tagging the agent it was copied
\* from.
CheckNotFound_CopiedTag(a) ==
  CASE a = "Claude" -> NotFound(a)
    [] a = "Codex"  -> NotFound("Codex")
    [] a = "Gemini" -> NotFound("Codex")

\* The NotFound error of the agent's check_command_exists: the shared one
\* takes the agent as a parameter (mod.rs:48), the copies in codex.rs:47-49 and
\* gemini.rs:46-48 name their own agent.
CheckNotFound(a) ==
  CASE a = "Claude" -> NotFound(a)
    [] a = "Codex"  -> NotFound("Codex")
    [] a = "Gemini" -> NotFound("Gemini")

\* RunFailed with the Gemini copy still tagging the agent it was copied from.
RunFailed_CopiedTag(a, text) ==
  CASE a = "Claude" -> ExecutionFailed(a, text)
    [] a = "Codex"  -> ExecutionFailed("Codex", text)
    [] a = "Gemini" -> ExecutionFailed("Codex", text)

\* RunFailed reporting a failure to run the command as a missing command.
RunFailed_AsNotFound(a, text) == NotFound(a)

\* The ExecutionFailed error of the agent's run_* helper:
\* run_command_with_stdin (mod.rs), run_codex_command (codex.rs:55-106),
\* run_gemini_command (gemini.rs:54-78).
RunFailed(a, text) ==
  CASE a = "Claude" -> ExecutionFailed(a, text)
    [] a = "Codex"  -> ExecutionFailed("Codex", text)
    [] a = "Gemini" -> ExecutionFailed("Gemini", text)

\* TimeoutError reporting the bound in milliseconds for Codex.
TimeoutError_Millis(a) ==
  CASE a = "Claude" -> Timeout(a, AGENT_TIMEOUT)
    [] a = "Codex"  -> Timeout("Codex", AGENT_TIMEOUT * 1000)
    [] a = "Gemini" -> Timeout("Gemini", AGENT_TIMEOUT)

\* The error execute() maps tokio's Elapsed to (claude.rs:23-26,
\* codex.rs:25-28, gemini.rs:24-27).
TimeoutError(a) ==
  CASE a = "Claude" -> Timeout(a, AGENT_TIMEOUT)
    [] a = "Codex"  -> Timeout("Codex", AGENT_TIMEOUT)
    [] a = "Gemini" -> Timeout("Gemini", AGENT_TIMEOUT)

\* impl fmt::Display for AgentName (types.rs:78-86): "claude", "codex",
\* "gemini".
AgentDisplay(a) ==
  CASE a = "Claude" -> <<99, 108, 97, 117, 100, 101>>
    [] a = "Codex"  -> <<99, 111, 100, 101, 120>>
    [] a = "Gemini" -> <<103, 101, 109, 105, 110, 105>>

\* "agent `"
DisplayAgentOpen == <<97, 103, 101, 110, 116, 32, 96>>
\* "` not found in PATH"
DisplayNotFound == <<96, 32, 110, 111, 116, 32, 102, 111, 117, 110, 100, 32, 105, 110, 32, 80, 65, 84, 72>>
\* "` execution failed: "
DisplayExecutionFailed == <<96, 32, 101, 120, 101, 99, 117, 116, 105, 111, 110, 32, 102, 97, 105, 108, 101, 100, 58, 32>>
\* "` timed out after "
DisplayTimedOut == <<96, 32, 116, 105, 109, 101, 100, 32, 111, 117, 116, 32, 97, 102, 116, 101, 114, 32>>

\* Display of a u64.
RECURSIVE U64Display(_)
U64Display(n) ==
  IF n < 10 THEN <<48 + n>> ELSE U64Display(n \div 10) \o <<48 + (n % 10)>>

\* #[error("...")] Display of an AgentError (error.rs:8-17).
Display(e) ==
  CASE e.kind = "NotFound" ->
         DisplayAgentOpen \o AgentDisplay(e.agent) \o DisplayNotFound
    [] e.kind = "ExecutionFailed" ->
         DisplayAgentOpen \o AgentDisplay(e.agent) \o DisplayExecutionFailed
           \o e.stderr
    [] e.kind = "Timeout" ->
         DisplayAgentOpen \o AgentDisplay(e.agent) \o DisplayTimedOut
           \o U64Display(e.timeout_secs) \o <<115>>

\* The second map_err of CodexAgent::execute (codex.rs:29-36) and
\* GeminiAgent::execute (gemini.rs:28-35); ClaudeAgent::execute has none.
FoldUnexpected(a, e) ==
  IF a = "Claude" \/ e.kind \in {"NotFound", "ExecutionFailed"} THEN e
  ELSE ExecutionFailed(a, UnexpectedPrefix \o Display(e))

\* UsesStdin with the stdin convention applied to every agent.
UsesStdin_All(a) == a \in {"Claude", "Codex", "Gemini"}

\* Whether the child's stdin is Stdio::piped() and the prompt written to it.
UsesStdin(a) == a \in {"Claude", "Codex"}

\* Program the agent's run_* helper spawns.
RunCommand(a) ==
  CASE a = "Claude" -> command_name(a)
    [] a = "Codex"  -> "codex"
    [] a = "Gemini" -> "gemini"

\* Arguments of the spawned command.
RunArgs(a, p) ==
  CASE a = "Claude" -> <<"--print">>
    [] a = "Codex"  -> <<"exec", "--skip-git-repo-check">>
    [] a = "Gemini" -> <<"-p", p>>

\* ----------------------------------------------------------- prompt.rs
\* prompt.rs:6
MAX_DIFF_LENGTH == 8000

\* The eleven type tags joined with ", " (CONVENTIONAL_COMMIT_TYPES.join).
CommitTypesJoined == <<102, 101, 97, 116, 44, 32, 102, 105, 120, 44, 32, 100, 111, 99, 115, 44, 32, 115, 116, 121, 108, 101, 44, 32, 114, 101, 102, 97, 99, 116, 111, 114, 44, 32, 116, 101, 115, 116, 44, 32, 99, 104, 111, 114, 101, 44, 32, 112, 101, 114, 102, 44, 32, 98, 117, 105, 108, 100, 44, 32, 99, 105, 44, 32, 114, 101, 118, 101, 114, 116>>
\* prompt.rs:72-80, the text pushed before the type list.
PromptIntro == <<71, 101, 110, 101, 114, 97, 116, 101, 32, 97, 32, 112, 114, 111, 102, 101, 115, 115, 105, 111, 110, 97, 108, 32, 99, 111, 109, 109, 105, 116, 32, 109, 101, 115, 115, 97, 103, 101, 32, 98, 97, 115, 101, 100, 32, 111, 110, 32, 116, 104, 101, 32, 97, 99, 116, 117, 97, 108, 32, 99, 111, 100, 101, 32, 99, 104, 97, 110, 103, 101, 115, 46, 10, 10, 82, 101, 113, 117, 105, 114, 101, 109, 101, 110, 116, 115, 58, 10, 49, 46, 32, 65, 78, 65, 76, 89, 90, 69, 32, 84, 72, 69, 32, 65, 67, 84, 85, 65, 76, 32, 67, 79, 68, 69, 32, 67, 72, 65, 78, 71, 69, 83, 32, 45, 32, 100, 111, 110, 39, 116, 32, 103, 117, 101, 115, 115, 32, 98, 97, 115, 101, 100, 32, 111, 110, 32, 102, 105, 108, 101, 32, 110, 97, 109, 101, 115, 10, 50, 46, 32, 67, 108, 101, 97, 114, 44, 32, 100, 101, 115, 99, 114, 105, 112, 116, 105, 118, 101, 32, 116, 105, 116, 108, 101, 32, 40, 53, 48, 32, 99, 104, 97, 114, 115, 32, 111, 114, 32, 108, 101, 115, 115, 41, 32, 102, 111, 108, 108, 111, 119, 105, 110, 103, 32, 99, 111, 110, 118, 101, 110, 116, 105, 111, 110, 97, 108, 32, 99, 111, 109, 109, 105, 116, 115, 10, 32, 32, 32, 45, 32, 83, 116, 97, 114, 116, 32, 119, 105, 116, 104, 32, 116, 121, 112, 101, 58, 32>>
\* prompt.rs:84-109, the text pushed after the type list.
PromptRules == <<10, 32, 32, 32, 45, 32, 79, 112, 116, 105, 111, 110, 97, 108, 32, 115, 99, 111, 112, 101, 32, 105, 110, 32, 112, 97, 114, 101, 110, 116, 104, 101, 115, 101, 115, 58, 32, 116, 121, 112, 101, 40, 115, 99, 111, 112, 101, 41, 58, 32, 100, 101, 115, 99, 114, 105, 112, 116, 105, 111, 110, 10, 51, 46, 32, 66, 101, 32, 67, 79, 78, 67, 73, 83, 69, 32, 45, 32, 109, 97, 116, 99, 104, 32, 100, 101, 116, 97, 105, 108, 32, 108, 101, 118, 101, 108, 32, 116, 111, 32, 115, 99, 111, 112, 101, 32, 111, 102, 32, 99, 104, 97, 110, 103, 101, 115, 58, 10, 32, 32, 32, 45, 32, 83, 105, 110, 103, 108, 101, 32, 102, 105, 108, 101, 47, 109, 101, 116, 104, 111, 100, 58, 32, 50, 45, 52, 32, 98, 117, 108, 108, 101, 116, 32, 112, 111, 105, 110, 116, 115, 32, 109, 97, 120, 10, 32, 32, 32, 45, 32, 77, 117, 108, 116, 105, 112, 108, 101, 32, 102, 105, 108, 101, 115, 58, 32, 52, 45, 54, 32, 98, 117, 108, 108, 101, 116, 32, 112, 111, 105, 110, 116, 115, 32, 109, 97, 120, 10, 32, 32, 32, 45, 32, 77, 97, 106, 111, 114, 32, 114, 101, 102, 97, 99, 116, 111, 114, 58, 32, 54, 43, 32, 98, 117, 108, 108, 101, 116, 32, 112, 111, 105, 110, 116, 115, 32, 97, 115, 32, 110, 101, 101, 100, 101, 100, 10, 52, 46, 32, 85, 115, 101, 32, 105, 109, 112, 101, 114, 97, 116, 105, 118, 101, 32, 109, 111, 111, 100, 32, 40, 34, 65, 100, 100, 32, 102, 101, 97, 116, 117, 114, 101, 34, 32, 110, 111, 116, 32, 34, 65, 100, 100, 101, 100, 32, 102, 101, 97, 116, 117, 114, 101, 34, 41, 10, 53, 46, 32, 70, 111, 114, 109, 97, 116, 58, 32, 84, 105, 116, 108, 101, 32, 43, 32, 98, 108, 97, 110, 107, 32, 108, 105, 110, 101, 32, 43, 32, 98, 117, 108, 108, 101, 116, 32, 112, 111, 105, 110, 116, 32, 100, 101, 116, 97, 105, 108, 115, 32, 40, 117, 115, 101, 32, 45, 32, 112, 114, 101, 102, 105, 120, 41, 10, 54, 46, 32, 70, 111, 99, 117, 115, 32, 111, 110, 32, 116, 104, 101, 32, 109, 111, 115, 116, 32, 105, 109, 112, 111, 114, 116, 97, 110, 116, 32, 99, 104, 97, 110, 103, 101, 115, 32, 102, 114, 111, 109, 32, 116, 104, 101, 32, 100, 105, 102, 102, 58, 10, 32, 32, 32, 45, 32, 75, 101, 121, 32, 102, 117, 110, 99, 116, 105, 111, 110, 97, 108, 105, 116, 121, 32, 97, 100, 100, 101, 100, 47, 109, 111, 100, 105, 102, 105, 101, 100, 47, 114, 101, 109, 111, 118, 101, 100, 10, 32, 32, 32, 45, 32, 83, 105, 103, 110, 105, 102, 105, 99, 97, 110, 116, 32, 108, 111, 103, 105, 99, 32, 111, 114, 32, 98, 101, 104, 97, 118, 105, 111, 114, 32, 99, 104, 97, 110, 103, 101, 115, 10, 32, 32, 32, 45, 32, 73, 109, 112, 111, 114, 116, 97, 110, 116, 32, 97, 114, 99, 104, 105, 116, 101, 99, 116, 117, 114, 97, 108, 32, 99, 104, 97, 110, 103, 101, 115, 10, 55, 46, 32, 65, 118, 111, 105, 100, 32, 111, 118, 101, 114, 45, 100, 101, 115, 99, 114, 105, 98, 105, 110, 103, 32, 105, 109, 112, 108, 101, 109, 101, 110, 116, 97, 116, 105, 111, 110, 32, 100, 101, 116, 97, 105, 108, 115, 32, 102, 111, 114, 32, 115, 109, 97, 108, 108, 32, 99, 104, 97, 110, 103, 101, 115, 10, 56, 46, 32, 68, 79, 32, 78, 79, 84, 32, 105, 110, 99, 108, 117, 100, 101, 32, 112, 114, 101, 97, 109, 98, 108, 101, 32, 108, 105, 107, 101, 32, 34, 76, 111, 111, 107, 105, 110, 103, 32, 97, 116, 32, 116, 104, 101, 32, 99, 104, 97, 110, 103, 101, 115, 34, 10, 57, 46, 32, 83, 116, 97, 114, 116, 32, 100, 105, 114, 101, 99, 116, 108, 121, 32, 119, 105, 116, 104, 32, 116, 104, 101, 32, 97, 99, 116, 105, 111, 110, 32, 40, 34, 65, 100, 100, 34, 44, 32, 34, 70, 105, 120, 34, 44, 32, 34, 85, 112, 100, 97, 116, 101, 34, 44, 32, 101, 116, 99, 46, 41, 10, 49, 48, 46, 32, 81, 117, 97, 108, 105, 116, 121, 32, 111, 118, 101, 114, 32, 113, 117, 97, 110, 116, 105, 116, 121, 32, 45, 32, 102, 101, 119, 101, 114, 44, 32, 109, 111, 114, 101, 32, 109, 101, 97, 110, 105, 110, 103, 102, 117, 108, 32, 98, 117, 108, 108, 101, 116, 32, 112, 111, 105, 110, 116, 115, 10, 10, 69, 120, 97, 109, 112, 108, 101, 32, 102, 111, 114, 109, 97, 116, 58, 10, 102, 101, 97, 116, 58, 32, 97, 100, 100, 32, 117, 115, 101, 114, 32, 97, 117, 116, 104, 101, 110, 116, 105, 99, 97, 116, 105, 111, 110, 32, 115, 121, 115, 116, 101, 109, 10, 10, 45, 32, 73, 109, 112, 108, 101, 109, 101, 110, 116, 32, 74, 87, 84, 45, 98, 97, 115, 101, 100, 32, 97, 117, 116, 104, 101, 110, 116, 105, 99, 97, 116, 105, 111, 110, 32, 102, 108, 111, 119, 10, 45, 32, 65, 100, 100, 32, 108, 111, 103, 105, 110, 47, 108, 111, 103, 111, 117, 116, 32, 101, 110, 100, 112, 111, 105, 110, 116, 115, 32, 105, 110, 32, 97, 117, 116, 104, 32, 114, 111, 117, 116, 101, 115, 10, 45, 32, 67, 114, 101, 97, 116, 101, 32, 117, 115, 101, 114, 32, 115, 101, 115, 115, 105, 111, 110, 32, 109, 97, 110, 97, 103, 101, 109, 101, 110, 116, 32, 109, 105, 100, 100, 108, 101, 119, 97, 114, 101, 10, 10, 82, 101, 116, 117, 114, 110, 32, 79, 78, 76, 89, 32, 116, 104, 101, 32, 99, 111, 109, 109, 105, 116, 32, 109, 101, 115, 115, 97, 103, 101, 32, 99, 111, 110, 116, 101, 110, 116, 32, 98, 101, 116, 119, 101, 101, 110, 32, 116, 104, 101, 115, 101, 32, 109, 97, 114, 107, 101, 114, 115, 58, 10, 60, 60, 60, 67, 79, 77, 77, 73, 84, 95, 77, 69, 83, 83, 65, 71, 69, 95, 83, 84, 65, 82, 84, 62, 62, 62, 10, 40, 99, 111, 109, 109, 105, 116, 32, 109, 101, 115, 115, 97, 103, 101, 32, 103, 111, 101, 115, 32, 104, 101, 114, 101, 41, 10, 60, 60, 60, 67, 79, 77, 77, 73, 84, 95, 77, 69, 83, 83, 65, 71, 69, 95, 69, 78, 68, 62, 62, 62, 10, 10>>
\* === CHANGE SUMMARY ===\n
SummaryHeading == <<61, 61, 61, 32, 67, 72, 65, 78, 71, 69, 32, 83, 85, 77, 77, 65, 82, 89, 32, 61, 61, 61, 10>>
\* === FILE STATISTICS ===\n
StatHeading == <<61, 61, 61, 32, 70, 73, 76, 69, 32, 83, 84, 65, 84, 73, 83, 84, 73, 67, 83, 32, 61, 61, 61, 10>>
\* === FILE STATUS ===\n
StatusHeading == <<61, 61, 61, 32, 70, 73, 76, 69, 32, 83, 84, 65, 84, 85, 83, 32, 61, 61, 61, 10>>
\* === FULL DIFF ===\n
DiffHeading == <<61, 61, 61, 32, 70, 85, 76, 76, 32, 68, 73, 70, 70, 32, 61, 61, 61, 10>>
\* (no changes)\n
NoChangesLine == <<40, 110, 111, 32, 99, 104, 97, 110, 103, 101, 115, 41, 10>>
\* \n... (diff truncated)
TruncationMarker == <<10, 46, 46, 46, 32, 40, 100, 105, 102, 102, 32, 116, 114, 117, 110, 99, 97, 116, 101, 100, 41>>
\* Files changed: 
FilesChangedLabel == <<70, 105, 108, 101, 115, 32, 99, 104, 97, 110, 103, 101, 100, 58, 32>>
\* \nLines added: 
LinesAddedLabel == <<10, 76, 105, 110, 101, 115, 32, 97, 100, 100, 101, 100, 58, 32>>
\* \nLines removed: 
LinesRemovedLabel == <<10, 76, 105, 110, 101, 115, 32, 114, 101, 109, 111, 118, 101, 100, 58, 32>>
\*  insertion
InsertionWord == <<32, 105, 110, 115, 101, 114, 116, 105, 111, 110>>
\*  deletion
DeletionWord == <<32, 100, 101, 108, 101, 116, 105, 111, 110>>
\* (+)
PlusParen == <<40, 43, 41>>
\* (-)
MinusParen == <<40, 45, 41>>

\* str::is_char_boundary(i), i a byte offset counted from 0.
is_char_boundary(s, i) ==
  \/ i = 0
  \/ i = Len(s)
  \/ i < Len(s) /\ (s[i + 1] < 128 \/ s[i + 1] >= 192)

\* BoundaryDown without the search: the cut stays at the budget.
BoundaryDown_None(s, b) == b

\* prompt.rs:18-21  while boundary > 0 && !diff.is_char_boundary(boundary)
RECURSIVE BoundaryDown(_, _)
BoundaryDown(s, b) ==
  IF b > 0 /\ ~is_char_boundary(s, b) THEN BoundaryDown(s, b - 1) ELSE b

truncate_diff(d) ==
  IF Len(d) <= MAX_DIFF_LENGTH THEN d
  ELSE SubSeq(d, 1, BoundaryDown(d, MAX_DIFF_LENGTH)) \o TruncationMarker

IsDigit(b) == b >= 48 /\ b <= 57

\* s has the literal w at position i (counted from 1).
HasAt(s, i, w) == i + Len(w) - 1 <= Len(s) /\ SubSeq(s, i, i + Len(w) - 1) = w

\* End of the run of digits that starts at position i.
RECURSIVE DigitsEnd(_, _)
DigitsEnd(s, i) ==
  IF i < Len(s) /\ IsDigit(s[i + 1]) THEN DigitsEnd(s, i + 1) ELSE i

\* The pattern (\d+)<word>[s]?<paren> matches s at position i.
CountMatchAt(s, i, word, paren) ==
  /\ i <= Len(s) /\ IsDigit(s[i])
  /\ LET k == DigitsEnd(s, i) + 1 IN
     /\ HasAt(s, k, word)
     /\ \/ HasAt(s, k + Len(word), <<115>> \o paren)
        \/ HasAt(s, k + Len(word), paren)

\* Value of a string of decimal digits (str::parse::<usize>).
RECURSIVE DigitsValue(_)
DigitsValue(ds) ==
  IF ds = <<>> THEN 0
  ELSE 10 * DigitsValue(SubSeq(ds, 1, Len(ds) - 1)) + (ds[Len(ds)] - 48)

\* Regex::captures(stat) . get(1) . parse . unwrap_or(0): the number captured
\* by the leftmost match, 0 without a match.
RECURSIVE CapturedCount(_, _, _, _)
CapturedCount(s, i, word, paren) ==
  IF i > Len(s) THEN 0
  ELSE IF CountMatchAt(s, i, word, paren)
         THEN DigitsValue(SubSeq(s, i, DigitsEnd(s, i)))
         ELSE CapturedCount(s, i + 1, word, paren)

\* Number of non-empty lines of s: s.lines().filter(|l| !l.is_empty()).count().
\* lines() splits at "\n" and drops one "\r" before it; cur is the length of
\* the line being read and cr whether its last byte is "\r".
RECURSIVE NonEmptyLines(_, _, _, _)
NonEmptyLines(s, i, cur, cr) ==
  LET full == IF cr THEN cur - 1 ELSE cur IN
  IF i > Len(s) THEN (IF cur > 0 THEN 1 ELSE 0)
  ELSE IF s[i] = 10
         THEN (IF full > 0 THEN 1 ELSE 0) + NonEmptyLines(s, i + 1, 0, FALSE)
         ELSE NonEmptyLines(s, i + 1, cur + 1, s[i] = 13)

\* Display of a usize.
RECURSIVE ToDecimal(_)
ToDecimal(n) ==
  IF n < 10 THEN <<48 + n>> ELSE ToDecimal(n \div 10) \o <<48 + (n % 10)>>

parse_change_summary(stat, name_status) ==
  LET file_count == NonEmptyLines(name_status, 1, 0, FALSE)
      lines_added == CapturedCount(stat, 1, InsertionWord, PlusParen)
      lines_removed == CapturedCount(stat, 1, DeletionWord, MinusParen)
  IN FilesChangedLabel \o ToDecimal(file_count)
       \o LinesAddedLabel \o ToDecimal(lines_added)
       \o LinesRemovedLabel \o ToDecimal(lines_removed)

\* A raw section: the literal placeholder when empty, else the text and "\n".
Section(text) == IF text = <<>> THEN NoChangesLine ELSE text \o <<10>>

build_prompt(d) ==
  PromptIntro \o CommitTypesJoined \o PromptRules
    \o SummaryHeading \o parse_change_summary(d.stat, d.name_status) \o <<10, 10>>
    \o StatHeading \o Section(d.stat) \o <<10>>
    \o StatusHeading \o Section(d.name_status) \o <<10>>
    \o DiffHeading \o Section(truncate_diff(d.diff))

\* StagedDiff::default()
NoDiff == [stat |-> <<>>, name_status |-> <<>>, diff |-> <<>>]

\* Staged diffs the provider may return: the empty one, and
\* stat " 1 file changed, 10 insertions(+), 5 deletions(-)",
\* name_status "M\tsrc/a.rs\nA\tb.rs", diff "+x".
DiffSamples ==
  { NoDiff,
    [stat |-> <<32, 49, 32, 102, 105, 108, 101, 32, 99, 104, 97, 110, 103, 101, 100, 44, 32, 49, 48, 32, 105, 110, 115, 101, 114, 116, 105, 111, 110, 115, 40, 43, 41, 44, 32, 53, 32, 100, 101, 108, 101, 116, 105, 111, 110, 115, 40, 45, 41>>,
     name_status |-> <<77, 9, 115, 114, 99, 47, 97, 46, 114, 115, 10, 65, 9, 98, 46, 114, 115>>,
     diff |-> <<43, 120>>] }

\* ------------------------------------------- agents/mod.rs: the cleaner
\* Width in bytes of the Unicode White_Space character that starts at
\* position i of s, 0 when none does.  This is the set of char::is_whitespace
\* (str::trim) and of the regex class \s.
WhiteAt(s, i) ==
  IF i > Len(s) THEN 0
  ELSE IF s[i] \in {9, 10, 11, 12, 13, 32} THEN 1
  ELSE IF i + 1 <= Len(s) /\ s[i] = 194 /\ s[i + 1] \in {133, 160} THEN 2
  ELSE IF /\ i + 2 <= Len(s)
          /\ \/ s[i] = 225 /\ s[i + 1] = 154 /\ s[i + 2] = 128
             \/ /\ s[i] = 226 /\ s[i + 1] = 128
                /\ s[i + 2] \in (128..138) \cup {168, 169, 175}
             \/ s[i] = 226 /\ s[i + 1] = 129 /\ s[i + 2] = 159
             \/ s[i] = 227 /\ s[i + 1] = 128 /\ s[i + 2] = 128
         THEN 3
  ELSE 0

\* Width of the white-space character whose last byte is at position j.
WhiteEndingAt(s, j) ==
  IF j < 1 THEN 0
  ELSE IF WhiteAt(s, j) = 1 THEN 1
  ELSE IF j >= 2 /\ WhiteAt(s, j - 1) = 2 THEN 2
  ELSE IF j >= 3 /\ WhiteAt(s, j - 2) = 3 THEN 3
  ELSE 0

\* First position at or after i that does not start a white-space character.
RECURSIVE SkipWhite(_, _)
SkipWhite(s, i) ==
  IF WhiteAt(s, i) = 0 THEN i ELSE SkipWhite(s, i + WhiteAt(s, i))

\* Last position at or before j that does not end a white-space character.
RECURSIVE SkipWhiteBack(_, _)
SkipWhiteBack(s, j) ==
  IF WhiteEndingAt(s, j) = 0 THEN j
  ELSE SkipWhiteBack(s, j - WhiteEndingAt(s, j))

\* trim removing leading white space only.
trim_StartOnly(s) == SubSeq(s, SkipWhite(s, 1), Len(s))

\* str::trim
trim(s) ==
  LET a == SkipWhite(s, 1) IN
  IF a > Len(s) THEN <<>> ELSE SubSeq(s, a, SkipWhiteBack(s, Len(s)))

\* Position of the first occurrence of the literal w in s at or after
\* position i, 0 when there is none.
Find(s, i, w) ==
  LET hits == { p \in i..(Len(s) - Len(w) + 1) : HasAt(s, p, w) } IN
  IF hits = {} THEN 0 ELSE CHOOSE p \in hits : \A q \in hits : p <= q

\* s from position i to its end.
From(s, i) == SubSeq(s, i, Len(s))

\* "<<<COMMIT_MESSAGE_START>>>"
MarkerStart ==
  <<60, 60, 60, 67, 79, 77, 77, 73, 84, 95, 77, 69, 83, 83, 65, 71, 69, 95,
    83, 84, 65, 82, 84, 62, 62, 62>>
\* "<<<COMMIT_MESSAGE_END>>>"
MarkerEnd ==
  <<60, 60, 60, 67, 79, 77, 77, 73, 84, 95, 77, 69, 83, 83, 65, 71, 69, 95,
    69, 78, 68, 62, 62, 62>>
\* "```"
Fence == <<96, 96, 96>>
\* "<thinking>"
ThinkingOpen == <<60, 116, 104, 105, 110, 107, 105, 110, 103, 62>>
\* "</thinking>"
ThinkingClose == <<60, 47, 116, 104, 105, 110, 107, 105, 110, 103, 62>>

\* Last element of a non-empty set of positions.
Greatest(ps) == CHOOSE p \in ps : \A q \in ps : q <= p

\* ExtractMarkers with a greedy [\s\S]*: up to the last end marker.
ExtractMarkers_Greedy(s) ==
  LET p == Find(s, 1, MarkerStart)
      qs == { q \in (p + Len(MarkerStart))..Len(s) : HasAt(s, q, MarkerEnd) }
  IN IF p = 0 \/ qs = {} THEN s
     ELSE SubSeq(s, p + Len(MarkerStart), Greatest(qs) - 1)

\* Step 1, MARKER_EXTRACT.captures(..).get(1): the text between the leftmost
\* start marker that has an end marker after it and the first end marker
\* after it ([\s\S]*? is lazy); the text itself without such a pair.
ExtractMarkers(s) ==
  LET p == Find(s, 1, MarkerStart)
      q == IF p = 0 THEN 0 ELSE Find(s, p + Len(MarkerStart), MarkerEnd)
  IN IF q = 0 THEN s ELSE SubSeq(s, p + Len(MarkerStart), q - 1)

\* End of the run of [a-z] that starts at position i (first position past it).
RECURSIVE LowerRunEnd(_, _)
LowerRunEnd(s, i) ==
  IF i <= Len(s) /\ s[i] >= 97 /\ s[i] <= 122 THEN LowerRunEnd(s, i + 1)
  ELSE i

\* Step 2, CODE_BLOCK.replace_all(.., "$1") from position i on: each
\* leftmost, non-overlapping ```(?:[a-z]*\n)?([\s\S]*?)``` is replaced by
\* its group 1.  The optional language line is taken when it matches.
RECURSIVE UnwrapCodeBlocks(_, _)
UnwrapCodeBlocks(s, i) ==
  LET p == Find(s, i, Fence)
      a == p + Len(Fence)
      l == LowerRunEnd(s, a)
      inner == IF l <= Len(s) /\ s[l] = 10 THEN l + 1 ELSE a
      c == IF p = 0 THEN 0 ELSE Find(s, inner, Fence)
  IN IF c = 0 THEN From(s, i)
     ELSE SubSeq(s, i, p - 1) \o SubSeq(s, inner, c - 1)
            \o UnwrapCodeBlocks(s, c + Len(Fence))

\* "here is"
PreambleHereIs == <<104, 101, 114, 101, 32, 105, 115>>
\* "here's"
PreambleHeres == <<104, 101, 114, 101, 39, 115>>
\* "the commit message"
PreambleTheCommitMessage ==
  <<116, 104, 101, 32, 99, 111, 109, 109, 105, 116, 32, 109, 101, 115, 115,
    97, 103, 101>>
\* "commit message"
PreambleCommitMessage ==
  <<99, 111, 109, 109, 105, 116, 32, 109, 101, 115, 115, 97, 103, 101>>

\* (?i): position after the text of s at i that matches the lowercase
\* literal w up to case, 0 when it does not match.  Unicode simple case
\* folding makes U+017F (long s, bytes C5 BF) equal to "s"; the other letters
\* of the preamble literals fold within ASCII only.
RECURSIVE FoldedEnd(_, _, _, _)
FoldedEnd(s, i, w, j) ==
  IF j > Len(w) THEN i
  ELSE IF i > Len(s) THEN 0
  ELSE IF s[i] = w[j] \/ (w[j] >= 97 /\ w[j] <= 122 /\ s[i] = w[j] - 32)
         THEN FoldedEnd(s, i + 1, w, j + 1)
  ELSE IF w[j] = 115 /\ HasAt(s, i, <<197, 191>>)
         THEN FoldedEnd(s, i + 2, w, j + 1)
  ELSE 0

\* Position of the first ":" at or after i on the line of i (. does not
\* match "\n"), 0 when the line has none.
ColonOnLine(s, i) ==
  LET c == Find(s, i, <<58>>)
      n == Find(s, i, <<10>>)
  IN IF c # 0 /\ (n = 0 \/ c < n) THEN c ELSE 0

\* Step 3, PREAMBLE.replace_all(.., ""):
\* (?i)^(here is|here's|the commit message|commit message).*?:\s* matches at
\* the start of the text only (^ without the m flag), so at most once.
StripPreamble(s) ==
  LET ends == { FoldedEnd(s, 1, w, 1) :
                  w \in {PreambleHereIs, PreambleHeres,
                         PreambleTheCommitMessage, PreambleCommitMessage} }
               \ {0}
      e == IF ends = {} THEN 0 ELSE CHOOSE x \in ends : TRUE
      c == IF e = 0 THEN 0 ELSE ColonOnLine(s, e)
  IN IF c = 0 THEN s ELSE From(s, SkipWhite(s, c + 1))

\* Step 4, THINKING_TAGS.replace_all(.., "") from position i on.
RECURSIVE RemoveThinking(_, _)
RemoveThinking(s, i) ==
  LET p == Find(s, i, ThinkingOpen)
      c == IF p = 0 THEN 0 ELSE Find(s, p + Len(ThinkingOpen), ThinkingClose)
  IN IF c = 0 THEN From(s, i)
     ELSE SubSeq(s, i, p - 1) \o RemoveThinking(s, c + Len(ThinkingClose))

\* End of the run of "\n" that starts at position i (first position past it).
RECURSIVE NewlineRunEnd(_, _)
NewlineRunEnd(s, i) ==
  IF i <= Len(s) /\ s[i] = 10 THEN NewlineRunEnd(s, i + 1) ELSE i

\* CollapseNewlines leaving three newlines for each run.
RECURSIVE CollapseNewlines_ToThree(_, _)
CollapseNewlines_ToThree(s, i) ==
  LET p == Find(s, i, <<10, 10, 10>>) IN
  IF p = 0 THEN From(s, i)
  ELSE SubSeq(s, i, p - 1) \o <<10, 10, 10>>
         \o CollapseNewlines_ToThree(s, NewlineRunEnd(s, p))

\* Step 5, MULTIPLE_NEWLINES.replace_all(.., "\n\n") from position i on:
\* each maximal run of three or more "\n" becomes two.
RECURSIVE CollapseNewlines(_, _)
CollapseNewlines(s, i) ==
  LET p == Find(s, i, <<10, 10, 10>>) IN
  IF p = 0 THEN From(s, i)
  ELSE SubSeq(s, i, p - 1) \o <<10, 10>>
         \o CollapseNewlines(s, NewlineRunEnd(s, p))

\* AfterExtraction with the preamble stripped before the fences are
\* unwrapped.
AfterExtraction_PreambleFirst(s) ==
  LET stripped == StripPreamble(s)
      unwrapped == UnwrapCodeBlocks(stripped, 1)
      thoughtless == RemoveThinking(unwrapped, 1)
  IN trim(CollapseNewlines(thoughtless, 1))

\* Steps 2 to 6 of clean_ai_response.
AfterExtraction(s) ==
  LET unwrapped == UnwrapCodeBlocks(s, 1)
      stripped == StripPreamble(unwrapped)
      thoughtless == RemoveThinking(stripped, 1)
  IN trim(CollapseNewlines(thoughtless, 1))

clean_ai_response(raw) == AfterExtraction(ExtractMarkers(raw))

\* ------------------------------------------------ types.rs: the validator
\* CommitTypes without revert.
CommitTypes_NoRevert ==
  { <<102, 101, 97, 116>>,
    <<102, 105, 120>>,
    <<100, 111, 99, 115>>,
    <<115, 116, 121, 108, 101>>,
    <<114, 101, 102, 97, 99, 116, 111, 114>>,
    <<116, 101, 115, 116>>,
    <<99, 104, 111, 114, 101>>,
    <<112, 101, 114, 102>>,
    <<98, 117, 105, 108, 100>>,
    <<99, 105>> }

\* The alternation of CONVENTIONAL_COMMIT_PATTERN: feat, fix, docs, style,
\* refactor, test, chore, perf, build, ci, revert.
CommitTypes ==
  { <<102, 101, 97, 116>>,
    <<102, 105, 120>>,
    <<100, 111, 99, 115>>,
    <<115, 116, 121, 108, 101>>,
    <<114, 101, 102, 97, 99, 116, 111, 114>>,
    <<116, 101, 115, 116>>,
    <<99, 104, 111, 114, 101>>,
    <<112, 101, 114, 102>>,
    <<98, 117, 105, 108, 100>>,
    <<99, 105>>,
    <<114, 101, 118, 101, 114, 116>> }

\* [a-z0-9\-]
IsScopeChar(b) == (b >= 97 /\ b <= 122) \/ (b >= 48 /\ b <= 57) \/ b = 45

\* End of the run of scope characters that starts at position i.
RECURSIVE ScopeRunEnd(_, _)
ScopeRunEnd(s, i) ==
  IF i <= Len(s) /\ IsScopeChar(s[i]) THEN ScopeRunEnd(s, i + 1) ELSE i

\* Position after (\([a-z0-9\-]+\))? at position i: past the scope when one
\* matches, i itself otherwise.
AfterScope(s, i) ==
  LET r == ScopeRunEnd(s, i + 1) IN
  IF i <= Len(s) /\ s[i] = 40 /\ r > i + 1 /\ r <= Len(s) /\ s[r] = 41
    THEN r + 1 ELSE i

\* ": .+" at position i: a colon, a space and one character that is not "\n".
ColonSpaceText(s, i) ==
  /\ HasAt(s, i, <<58, 32>>)
  /\ i + 2 <= Len(s)
  /\ s[i + 2] # 10

\* CONVENTIONAL_COMMIT_PATTERN.is_match(msg)
\* ^(feat|..|revert)(\([a-z0-9\-]+\))?: .+
CONVENTIONAL_COMMIT_PATTERN(msg) ==
  \E t \in CommitTypes :
    /\ HasAt(msg, 1, t)
    /\ \/ ColonSpaceText(msg, AfterScope(msg, Len(t) + 1))
       \/ ColonSpaceText(msg, Len(t) + 1)

\* Result<ConventionalCommit, CommitValidationError>; raw is the private
\* field of ConventionalCommit, kind and message are the error.
NotValidated == [tag |-> "None", raw |-> <<>>, kind |-> "None", message |-> <<>>]
Commit(text) == [tag |-> "Ok", raw |-> text, kind |-> "None", message |-> <<>>]
Empty == [tag |-> "Err", raw |-> <<>>, kind |-> "Empty", message |-> <<>>]
InvalidFormat(text) ==
  [tag |-> "Err", raw |-> <<>>, kind |-> "InvalidFormat", message |-> text]

\* validate storing the text as given instead of the trimmed text.
validate_Untrimmed(msg) ==
  LET m == trim(msg) IN
  IF m = <<>> THEN Empty
  ELSE IF ~CONVENTIONAL_COMMIT_PATTERN(m) THEN InvalidFormat(m)
  ELSE Commit(msg)

\* validate without the is_empty test.
validate_EmptyAsInvalid(msg) ==
  LET m == trim(msg) IN
  IF ~CONVENTIONAL_COMMIT_PATTERN(m) THEN InvalidFormat(m) ELSE Commit(m)

\* ConventionalCommit::validate
validate(msg) ==
  LET m == trim(msg) IN
  IF m = <<>> THEN Empty
  ELSE IF ~CONVENTIONAL_COMMIT_PATTERN(m) THEN InvalidFormat(m)
  ELSE Commit(m)

\* ConventionalCommit::as_str
as_str(c) == c.raw

\* "commit message is empty"
EmptyText == <<99, 111, 109, 109, 105, 116, 32, 109, 101, 115, 115, 97, 103, 101, 32, 105, 115, 32, 101, 109, 112, 116, 121>>
\* "invalid conventional commit format: '"
InvalidFormatOpen ==
  <<105, 110, 118, 97, 108, 105, 100, 32, 99, 111, 110, 118, 101, 110, 116, 105, 111, 110, 97, 108, 32, 99, 111, 109, 109, 105, 116, 32, 102, 111, 114, 109, 97, 116, 58, 32, 39>>
\* "'\nExpected: <type>(<scope>): <description>"
InvalidFormatClose ==
  <<39, 10, 69, 120, 112, 101, 99, 116, 101, 100, 58, 32, 60, 116, 121, 112, 101, 62, 40, 60, 115, 99, 111, 112, 101, 62, 41, 58, 32, 60, 100, 101, 115, 99, 114, 105, 112, 116, 105, 111, 110, 62>>

\* impl fmt::Display for CommitValidationError (e.to_string())
ValidationDisplay(e) ==
  IF e.kind = "Empty" THEN EmptyText
  ELSE InvalidFormatOpen \o e.message \o InvalidFormatClose

\* -------------------------------------------------------------- signature
\* Option<&str>
NoSignature == [some |-> FALSE, text |-> <<>>]
Some(text) == [some |-> TRUE, text |-> text]

\* Signatures a caller may pass: None,
\* Some("Co-Authored-By: AI <ai@example.com>"), Some("Signed-off-by: A\n")
\* and Some("fix: y").
SignatureSamples ==
  { NoSignature,
    Some(<<67, 111, 45, 65, 117, 116, 104, 111, 114, 101, 100, 45, 66, 121,
           58, 32, 65, 73, 32, 60, 97, 105, 64, 101, 120, 97, 109, 112, 108,
           101, 46, 99, 111, 109, 62>>),
    Some(<<83, 105, 103, 110, 101, 100, 45, 111, 102, 102, 45, 98, 121, 58,
           32, 65, 10>>),
    Some(<<102, 105, 120, 58, 32, 121>>) }

\* ------------------------------------------------------------------ cli.rs
\* GenerateArgs as far as run_generate's control flow reads it: agent,
\* dry_run and message_only (quiet and verbose only select what is printed).
\* present: run_generate is the caller of generate_commit_message.
NoArgs ==
  [present |-> FALSE, agent |-> <<>>, dry_run |-> FALSE,
   message_only |-> FALSE]
GenerateArgs(a, dry, only) ==
  [present |-> TRUE, agent |-> a, dry_run |-> dry, message_only |-> only]

\* Values of --agent: "claude" (the default), "Codex", "GEMINI", "gpt".
AgentStrings ==
  { <<99, 108, 97, 117, 100, 101>>,
    <<67, 111, 100, 101, 120>>,
    <<71, 69, 77, 73, 78, 73>>,
    <<103, 112, 116>> }

\* str::to_lowercase on ASCII text
to_lowercase(s) ==
  [i \in 1..Len(s) |-> IF s[i] >= 65 /\ s[i] <= 90 THEN s[i] + 32 ELSE s[i]]

\* impl FromStr for AgentName; "None" stands for Err(AgentNameParseError).
from_str(s) ==
  LET lower == to_lowercase(s) IN
  CASE lower = <<99, 108, 97, 117, 100, 101>>  -> "Claude"
    [] lower = <<99, 111, 100, 101, 120>>      -> "Codex"
    [] lower = <<103, 101, 109, 105, 110, 105>> -> "Gemini"
    [] OTHER -> "None"

\* cli.rs:117-121, the names matched into the signature: "Claude", "Codex",
\* "Gemini".
SignatureName(a) ==
  CASE a = "Claude" -> <<67, 108, 97, 117, 100, 101>>
    [] a = "Codex"  -> <<67, 111, 100, 101, 120>>
    [] a = "Gemini" -> <<71, 101, 109, 105, 110, 105>>

\* format!("\u{1F916} Generated with {} via commitment", ..); U+1F916 is
\* F0 9F A4 96.
CliSignature(a) ==
  <<240, 159, 164, 150, 32, 71, 101, 110, 101, 114, 97, 116, 101, 100, 32,
    119, 105, 116, 104, 32>>
    \o SignatureName(a)
    \o <<32, 118, 105, 97, 32, 99, 111, 109, 109, 105, 116, 109, 101, 110,
         116>>

\* run_generate has not returned.
CliNone == "none"

\* No concurrent invocation is in progress.
NoInvocations == <<>>

\* install_lefthook is not called: no working directory is looked at.
NoFiles == <<>>

\* install_lefthook has not returned.
HookNone == "none"

\* io::Errors Command::spawn can fail with after the availability check
\* passed: the executable is gone, or may not be executed.
SpawnErrors == {ENOENT, EACCES}

\* ------------------------------------------------- process-wide statics
\* The once_cell Lazy<Regex> statics; each is compiled by the first call
\* that dereferences it and is only read afterwards.
\* prompt.rs:37-40, dereferenced by parse_change_summary
PromptStatics == {"INSERTIONS_RE", "DELETIONS_RE"}
\* agents/mod.rs:14-31, all five dereferenced by clean_ai_response
CleanerStatics ==
  {"MARKER_EXTRACT", "CODE_BLOCK", "PREAMBLE", "THINKING_TAGS",
   "MULTIPLE_NEWLINES"}
\* types.rs:6, dereferenced by validate unless it returned Empty before
ValidatorStatics(msg) ==
  IF trim(msg) = <<>> THEN {} ELSE {"CONVENTIONAL_COMMIT_PATTERN"}

\* ------------------------------------------------------------------- state
VARIABLES
  agent,       \* the Agent variant generate_commit_message was given
  signature,   \* the Option<&str> generate_commit_message was given
  onPath,      \* environment: the agent's executable is on the search path
  staged,      \* what has_staged_changes() answered: "true", "false", "err"
  gitErr,      \* the GitError the provider returned, NoGitError if none
  pc,          \* position of generate_commit_message / execute
  log,         \* calls made so far, in order
  diff,        \* StagedDiff returned by get_staged_diff
  prompt,      \* String returned by build_prompt
  spawned,     \* programs spawned as operating-system processes, in order
  which,       \* the `which` lookup process: "none", "running", "exited"
  child,       \* the agent child process
  now,         \* wall clock, seconds since Agent::execute was called
  deadline,    \* clock value at which tokio::time::timeout expires, -1: unarmed
  execResult,  \* value returned by Agent::execute
  cause,       \* what made Agent::execute return ("none" until it does)
  raw_response,\* lib.rs:76 raw_response (clean_ai_response: raw)
  cleaned,     \* lib.rs:79 cleaned
  final_message, \* lib.rs:82 final_message (validate: msg)
  validated,   \* value returned by ConventionalCommit::validate
  genResult,   \* value returned by generate_commit_message
  args,        \* cli.rs GenerateArgs given to run_generate
  commits,     \* provider state: messages committed by GitProvider::commit
  cliResult,   \* value returned by run_generate
  patterns,    \* the Lazy<Regex> statics initialised so far in this process
  inv,         \* the generate_commit_message calls of a concurrent caller
  files,       \* hooks: contents of the Lefthook config files of cwd
  hookResult,  \* value returned by install_lefthook
  truncated    \* value returned by truncate_diff

vars == <<agent, signature, onPath, staged, gitErr, pc, log, diff, prompt,
          spawned, which, child, now, deadline, execResult, cause,
          raw_response, cleaned, final_message, validated, genResult,
          args, commits, cliResult, patterns, inv, files, hookResult,
          truncated>>

NoChild ==
  [state |-> "none", status |-> 0, stdin |-> "none", parentStdin |-> "none",
   outOpen |-> FALSE, outRead |-> FALSE, stdout |-> <<>>, stderr |-> <<>>,
   received |-> <<>>, args |-> <<>>, duringCall |-> FALSE,
   spawn_error |-> <<>>]

Init ==
  /\ agent \in AgentNames
  /\ onPath \in BOOLEAN
  /\ staged = "unasked"
  /\ pc = "gen_start"
  /\ log = <<>>
  /\ diff = NoDiff
  /\ prompt = <<>>
  /\ spawned = <<>>
  /\ which = "none"
  /\ child = NoChild
  /\ now = 0
  /\ deadline = -1
  /\ execResult = NoResult
  /\ cause = "none"
  /\ raw_response = <<>>
  /\ genResult = GenNone
  /\ signature \in SignatureSamples
  /\ gitErr = NoGitError
  /\ cleaned = <<>>
  /\ final_message = <<>>
  /\ validated = NotValidated
  /\ args = NoArgs
  /\ commits = <<>>
  /\ cliResult = CliNone
  /\ patterns = {}
  /\ inv = NoInvocations
  /\ files = NoFiles
  /\ hookResult = HookNone
  /\ truncated = <<>>

Min(a, b) == IF a <= b THEN a ELSE b

\* TimedPcs with the timeout wrapped around the wait-for-exit step only.
TimedPcs_WaitOnly == {"wait"}

\* Positions of execute() inside the future wrapped by tokio::time::timeout.
TimedPcs == {"write", "flush", "wait"}

\* tokio::time::timeout: the deadline has been reached and the wrapped future
\* has not completed.
TimerDue == deadline >= 0 /\ pc \in TimedPcs /\ now >= deadline

\* wait_with_output() can complete: the child has exited and both of its
\* output streams have reached end of file.
ChildFinished == child.state = "exited" /\ ~child.outOpen

\* The executor is suspended on something only its environment can provide.
Blocked ==
  \/ pc = "check_wait" /\ which = "running"
  \/ pc = "write" /\ child.stdin = "blocked"
  \/ pc = "wait" /\ ~ChildFinished

\* --------------------------------------------- generate_commit_message 1-3
\* GenHasStaged without the early return of lib.rs:66: an answer of false
\* falls through to the diff fetch.
GenHasStaged_NoEarlyReturn ==
  /\ pc = "gen_start"
  /\ log' = Append(log, "has_staged_changes")
  /\ \/ /\ staged' \in {"true", "false"}
        /\ pc' = "gen_diff"
        /\ UNCHANGED <<gitErr, genResult>>
     \/ \E e \in GitFailures :
        /\ staged' = "err"
        /\ gitErr' = e
        /\ pc' = "gen_done"
        /\ genResult' = GenGit(e)
  /\ UNCHANGED <<args, commits, cliResult, patterns, inv, files,
                 hookResult, truncated, agent, signature, onPath, diff, prompt, spawned, which,
                 child, now, deadline, execResult, cause, raw_response,
                 cleaned, final_message, validated>>

\* lib.rs:65-67  if !git.has_staged_changes()? { return Err(NoStagedChanges) }
GenHasStaged ==
  /\ pc = "gen_start"
  /\ log' = Append(log, "has_staged_changes")
  /\ \/ /\ staged' = "true"                      \* Ok(true)
        /\ pc' = "gen_diff"
        /\ UNCHANGED <<gitErr, genResult>>
     \/ /\ staged' = "false"                     \* Ok(false)
        /\ pc' = "gen_done"
        /\ genResult' = GenGit(NoStagedChanges)
        /\ UNCHANGED gitErr
     \/ \E e \in GitFailures :                   \* Err(e)?
        /\ staged' = "err"
        /\ gitErr' = e
        /\ pc' = "gen_done"
        /\ genResult' = GenGit(e)
  /\ UNCHANGED <<args, commits, cliResult, patterns, inv, files,
                 hookResult, truncated, agent, signature, onPath, diff, prompt, spawned, which,
                 child, now, deadline, execResult, cause, raw_response,
                 cleaned, final_message, validated>>

\* lib.rs:70  let diff = git.get_staged_diff()?;
GenGetDiff ==
  /\ pc = "gen_diff"
  /\ log' = Append(log, "get_staged_diff")
  /\ \/ \E d \in DiffSamples :
        /\ diff' = d
        /\ pc' = "gen_prompt"
        /\ UNCHANGED <<gitErr, genResult>>
     \/ \E e \in GitFailures \cup {NoStagedChanges} :
        /\ gitErr' = e
        /\ pc' = "gen_done"
        /\ genResult' = GenGit(e)
        /\ UNCHANGED diff
  /\ UNCHANGED <<args, commits, cliResult, patterns, inv, files,
                 hookResult, truncated, agent, signature, onPath, staged, prompt, spawned, which,
                 child, now, deadline, execResult, cause, raw_response,
                 cleaned, final_message, validated>>

\* lib.rs:73  let prompt = build_prompt(&diff);
GenBuildPrompt ==
  /\ pc = "gen_prompt"
  /\ patterns' = patterns \cup PromptStatics
  /\ log' = Append(log, "build_prompt")
  /\ prompt' = build_prompt(diff)
  /\ pc' = "gen_exec"
  /\ UNCHANGED <<args, commits, cliResult, inv, files,
                 hookResult, truncated, agent, signature, onPath, staged, gitErr, diff, spawned,
                 which, child, now, deadline, execResult, cause, raw_response,
                 cleaned, final_message, validated, genResult>>

\* lib.rs:76  agent.execute(&prompt)  -- Agent::execute dispatches on self.
GenExecute ==
  /\ pc = "gen_exec"
  /\ log' = Append(log, "execute")
  /\ pc' = "check"
  /\ UNCHANGED <<args, commits, cliResult, patterns, inv, files,
                 hookResult, truncated, agent, signature, onPath, staged, gitErr, diff, prompt,
                 spawned, which, child, now, deadline, execResult, cause,
                 raw_response, cleaned, final_message, validated, genResult>>

\* ------------------------------------------------------------ Agent::execute
\* Return from execute() with result r.  Dropping the tokio Child and its
\* pipe handles closes the parent's ends of the pipes; kill_on_drop is not
\* set, so the child itself is left as it is.
ExecReturn(r, why) ==
  /\ execResult' = r
  /\ cause' = why
  /\ pc' = "exec_done"
  /\ child' = [child EXCEPT
       !.parentStdin = IF @ = "open" THEN "closed" ELSE @,
       !.outRead = FALSE]

\* check_command_exists, first half: Command::new("which").arg(command)
\* .output() spawns the lookup.  When it cannot be spawned the result is Err
\* and the match falls to `_ => Err(NotFound)`.
CheckSpawn ==
  /\ pc = "check"
  /\ log' = Append(log, "check_command_exists")
  /\ \/ /\ which' = "running"
        /\ spawned' = Append(spawned, "which")
        /\ pc' = "check_wait"
        /\ UNCHANGED <<execResult, cause, child>>
     \/ /\ ExecReturn(Err(CheckNotFound(agent)), "which_failed")
        /\ UNCHANGED <<which, spawned>>
  /\ UNCHANGED <<args, commits, cliResult, patterns, inv, files,
                 hookResult, truncated, agent, signature, onPath, staged, gitErr, diff, prompt, now,
                 deadline, raw_response, cleaned, final_message, validated,
                 genResult>>

\* The lookup process ends; `which` exits 0 exactly when it found the command.
WhichExit ==
  /\ which = "running"
  /\ which' = "exited"
  /\ UNCHANGED <<args, commits, cliResult, patterns, inv, files,
                 hookResult, truncated, agent, signature, onPath, staged, gitErr, pc, log, diff,
                 prompt, spawned, child, now, deadline, execResult, cause,
                 raw_response, cleaned, final_message, validated, genResult>>

\* check_command_exists, second half: the match on the lookup's output, and
\* the `?` of execute().
CheckDone ==
  /\ pc = "check_wait"
  /\ which = "exited"
  /\ IF onPath
       THEN /\ pc' = "spawn"
            /\ UNCHANGED <<execResult, cause, child>>
       ELSE ExecReturn(Err(CheckNotFound(agent)), "not_on_path")
  /\ UNCHANGED <<args, commits, cliResult, patterns, inv, files,
                 hookResult, truncated, agent, signature, onPath, staged, gitErr, log, diff, prompt,
                 spawned, which, now, deadline, raw_response, cleaned,
                 final_message, validated, genResult>>

\* Spawn starting the command a second time after a first spawn (spawn()
\* followed by output()).
Spawn_Twice ==
  /\ pc = "spawn"
  /\ log' = Append(log, "spawn")
  /\ child' = [NoChild EXCEPT
       !.state = "running",
       !.stdin = IF UsesStdin(agent) THEN "reading" ELSE "none",
       !.parentStdin = IF UsesStdin(agent) THEN "open" ELSE "none",
       !.outOpen = TRUE,
       !.outRead = TRUE,
       !.args = RunArgs(agent, prompt)]
  /\ spawned' = spawned \o <<RunCommand(agent), RunCommand(agent)>>
  /\ deadline' = now + AGENT_TIMEOUT
  /\ pc' = IF UsesStdin(agent) THEN "write" ELSE "wait"
  /\ UNCHANGED <<args, commits, cliResult, patterns, inv, files,
                 hookResult, truncated, agent, signature, onPath, staged, gitErr, diff, prompt,
                 which, now, execResult, cause, raw_response, cleaned,
                 final_message, validated, genResult>>

\* tokio::time::timeout(AGENT_TIMEOUT, run_*(prompt)) is created and the
\* wrapped future polled for the first time: Command::spawn().
Spawn ==
  /\ pc = "spawn"
  /\ log' = Append(log, "spawn")
  /\ \/ \E mode \in (IF UsesStdin(agent) THEN {"reading", "blocked", "closed"}
                                          ELSE {"none"}) :
        /\ child' = [NoChild EXCEPT
             !.state = "running",
             !.stdin = mode,
             !.parentStdin = IF UsesStdin(agent) THEN "open" ELSE "none",
             !.outOpen = TRUE,
             !.outRead = TRUE,
             !.args = RunArgs(agent, prompt)]
        /\ spawned' = Append(spawned, RunCommand(agent))
        /\ deadline' = now + AGENT_TIMEOUT
        /\ pc' = IF UsesStdin(agent) THEN "write" ELSE "wait"
        /\ UNCHANGED <<execResult, cause>>
     \/ \E e \in SpawnErrors :                  \* .spawn() is Err(e)
        /\ execResult' = Err(FoldUnexpected(agent, RunFailed(agent, e)))
        /\ cause' = "spawn_error"
        /\ pc' = "exec_done"
        /\ child' = [NoChild EXCEPT !.spawn_error = e]
        /\ UNCHANGED <<spawned, deadline>>
  /\ UNCHANGED <<args, commits, cliResult, patterns, inv, files,
                 hookResult, truncated, agent, signature, onPath, staged, gitErr, diff, prompt,
                 which, now, raw_response, cleaned, final_message, validated,
                 genResult>>

\* stdin.write_all(prompt.as_bytes()).await
WriteAll ==
  /\ pc = "write"
  /\ ~TimerDue
  /\ child.stdin \in {"reading", "closed"}
  /\ log' = Append(log, "write_all")
  /\ IF child.stdin = "reading"
       THEN /\ child' = [child EXCEPT !.received = @ \o prompt]
            /\ pc' = "flush"
            /\ UNCHANGED <<execResult, cause>>
       ELSE ExecReturn(Err(FoldUnexpected(agent,
                             RunFailed(agent, WriteErrPrefix \o EPIPE))),
                       "write_error")
  /\ UNCHANGED <<args, commits, cliResult, patterns, inv, files,
                 hookResult, truncated, agent, signature, onPath, staged, gitErr, diff, prompt,
                 spawned, which, now, deadline, raw_response, cleaned,
                 final_message, validated, genResult>>

\* stdin.flush().await, the end of the `if let` block, where stdin is dropped
\* (which closes the pipe), and the call of child.wait_with_output().
Flush ==
  /\ pc = "flush"
  /\ ~TimerDue
  /\ \/ /\ log' = log \o <<"flush", "drop_stdin", "wait_with_output">>
        /\ child' = [child EXCEPT !.parentStdin = "closed"]
        /\ pc' = "wait"
        /\ UNCHANGED <<execResult, cause>>
     \/ /\ log' = log \o <<"flush", "drop_stdin">>
        /\ ExecReturn(Err(FoldUnexpected(agent,
                            RunFailed(agent, FlushErrPrefix \o EIO))),
                      "flush_error")
  /\ UNCHANGED <<args, commits, cliResult, patterns, inv, files,
                 hookResult, truncated, agent, signature, onPath, staged, gitErr, diff, prompt,
                 spawned, which, now, deadline, raw_response, cleaned,
                 final_message, validated, genResult>>

\* ASCII white space, as str::trim removes it from both ends.
IsAsciiSpace(b) == b \in {9, 10, 11, 12, 13, 32}

RECURSIVE TrimStartAscii(_)
TrimStartAscii(t) ==
  IF t # <<>> /\ IsAsciiSpace(t[1]) THEN TrimStartAscii(Tail(t)) ELSE t

RECURSIVE TrimEndAscii(_)
TrimEndAscii(t) ==
  IF t # <<>> /\ IsAsciiSpace(t[Len(t)])
    THEN TrimEndAscii(SubSeq(t, 1, Len(t) - 1)) ELSE t

\* Classify taking the error text from the wrong stream.
Classify_WrongStream(a, status, out, errs) ==
  IF status # 0 THEN Err(RunFailed(a, from_utf8_lossy(out)))
  ELSE Ok(from_utf8_lossy(out))

\* Classify trimming the response.
Classify_Trimmed(a, status, out, errs) ==
  IF status # 0 THEN Err(RunFailed(a, from_utf8_lossy(errs)))
  ELSE Ok(TrimEndAscii(TrimStartAscii(from_utf8_lossy(out))))

\* The outcome run_* computes from a completed wait_with_output().
Classify(a, status, out, errs) ==
  IF status # 0 THEN Err(RunFailed(a, from_utf8_lossy(errs)))
  ELSE Ok(from_utf8_lossy(out))

\* The `?` after the second map_err of Codex and Gemini.
FoldResult(a, r) == IF r.tag = "Err" THEN Err(FoldUnexpected(a, r.err)) ELSE r

\* child.wait_with_output().await completes (for Gemini: Command::output()),
\* with the collected output or with an I/O error.
WaitDone ==
  /\ pc = "wait"
  /\ ~TimerDue
  /\ ChildFinished
  /\ \/ ExecReturn(FoldResult(agent,
          Classify(agent, child.status, child.stdout, child.stderr)),
          "output")
     \/ ExecReturn(Err(FoldUnexpected(agent, RunFailed(agent, EIO))),
                   "wait_error")
  /\ UNCHANGED <<args, commits, cliResult, patterns, inv, files,
                 hookResult, truncated, agent, signature, onPath, staged, gitErr, log, diff, prompt,
                 spawned, which, now, deadline, raw_response, cleaned,
                 final_message, validated, genResult>>

\* tokio::time::timeout elapses: .map_err(|_| AgentError::Timeout{..})?
TimeoutElapsed ==
  /\ TimerDue
  /\ log' = Append(log, "elapsed")
  /\ ExecReturn(Err(TimeoutError(agent)), "elapsed")
  /\ UNCHANGED <<args, commits, cliResult, patterns, inv, files,
                 hookResult, truncated, agent, signature, onPath, staged, gitErr, diff, prompt,
                 spawned, which, now, deadline, raw_response, cleaned,
                 final_message, validated, genResult>>

\* GenAfterExecute without the `?`: an agent error is dropped and the run
\* goes on with an empty response.
GenAfterExecute_ContinueOnError ==
  /\ pc = "exec_done"
  /\ raw_response' = execResult.value
  /\ pc' = "gen_clean"
  /\ UNCHANGED <<args, commits, cliResult, patterns, inv, files,
                 hookResult, truncated, agent, signature, onPath, staged, gitErr, log, diff, prompt,
                 spawned, which, child, now, deadline, execResult, cause,
                 cleaned, final_message, validated, genResult>>

\* lib.rs:76  let raw_response = agent.execute(&prompt).await?;
GenAfterExecute ==
  /\ pc = "exec_done"
  /\ IF execResult.tag = "Err"
       THEN /\ genResult' = GenAgent(execResult.err)
            /\ pc' = "gen_done"
            /\ UNCHANGED raw_response
       ELSE /\ raw_response' = execResult.value
            /\ pc' = "gen_clean"
            /\ UNCHANGED genResult
  /\ UNCHANGED <<args, commits, cliResult, patterns, inv, files,
                 hookResult, truncated, agent, signature, onPath, staged, gitErr, log, diff, prompt,
                 spawned, which, child, now, deadline, execResult, cause,
                 cleaned, final_message, validated>>

\* ------------------------------------------- generate_commit_message 5-8
\* lib.rs:79  let cleaned = clean_ai_response(&raw_response);
GenClean ==
  /\ pc = "gen_clean"
  /\ patterns' = patterns \cup CleanerStatics
  /\ log' = Append(log, "clean_ai_response")
  /\ cleaned' = clean_ai_response(raw_response)
  /\ pc' = "gen_sign"
  /\ UNCHANGED <<args, commits, cliResult, inv, files,
                 hookResult, truncated, agent, signature, onPath, staged, gitErr, diff, prompt,
                 spawned, which, child, now, deadline, execResult, cause,
                 raw_response, final_message, validated, genResult>>

\* AppendSignature with a single newline between message and signature.
AppendSignature_OneNewline(text, sig) == text \o <<10>> \o sig

\* format!("{}\n\n{}", cleaned, sig)
AppendSignature(text, sig) == text \o <<10, 10>> \o sig

\* lib.rs:82-86  let final_message = if let Some(sig) = signature { .. }
GenSignature ==
  /\ pc = "gen_sign"
  /\ IF signature.some
       THEN /\ log' = Append(log, "append_signature")
            /\ final_message' = AppendSignature(cleaned, signature.text)
       ELSE /\ final_message' = cleaned
            /\ UNCHANGED log
  /\ pc' = "gen_validate"
  /\ UNCHANGED <<args, commits, cliResult, patterns, inv, files,
                 hookResult, truncated, agent, signature, onPath, staged, gitErr, diff, prompt,
                 spawned, which, child, now, deadline, execResult, cause,
                 raw_response, cleaned, validated, genResult>>

\* GenValidate committing the message itself once it is validated.
GenValidate_Commits ==
  /\ pc = "gen_validate"
  /\ patterns' = patterns \cup ValidatorStatics(final_message)
  /\ validated' = validate(final_message)
  /\ genResult' = IF validated'.tag = "Ok" THEN GenOk(validated')
                  ELSE GenValidation(ValidationDisplay(validated'))
  /\ IF validated'.tag = "Ok"
       THEN /\ log' = log \o <<"validate", "commit">>
            /\ commits' = Append(commits,
                 [message |-> as_str(validated'), ok |-> TRUE])
       ELSE /\ log' = Append(log, "validate")
            /\ UNCHANGED commits
  /\ pc' = "gen_done"
  /\ UNCHANGED <<args, cliResult, inv, files, hookResult, truncated, agent,
                 signature, onPath, staged, gitErr, diff, prompt, spawned,
                 which, child, now, deadline, execResult, cause,
                 raw_response, cleaned, final_message>>

\* lib.rs:89-93  ConventionalCommit::validate(&final_message)
\*   .map_err(|e| GeneratorError::Validation(e.to_string()))?  and Ok(commit)
GenValidate ==
  /\ pc = "gen_validate"
  /\ patterns' = patterns \cup ValidatorStatics(final_message)
  /\ log' = Append(log, "validate")
  /\ validated' = validate(final_message)
  /\ genResult' = IF validated'.tag = "Ok" THEN GenOk(validated')
                  ELSE GenValidation(ValidationDisplay(validated'))
  /\ pc' = "gen_done"
  /\ UNCHANGED <<args, commits, cliResult, inv, files,
                 hookResult, truncated, agent, signature, onPath, staged, gitErr, diff, prompt,
                 spawned, which, child, now, deadline, execResult, cause,
                 raw_response, cleaned, final_message>>

\* ------------------------------------------------- the child and the clock
\* The child starts or stops reading its standard input.
ChildStdin ==
  /\ child.state = "running"
  /\ child.stdin = "blocked"
  /\ ~TimerDue
  /\ \E mode \in {"reading", "closed"} : child' = [child EXCEPT !.stdin = mode]
  /\ UNCHANGED <<args, commits, cliResult, patterns, inv, files,
                 hookResult, truncated, agent, signature, onPath, staged, gitErr, pc, log, diff,
                 prompt, spawned, which, now, deadline, execResult, cause,
                 raw_response, cleaned, final_message, validated, genResult>>

\* The child exits, having written out and errs; keep: a descendant of the
\* child still holds the write ends of its output pipes.
ChildExit ==
  /\ child.state = "running"
  /\ ~TimerDue
  /\ \E status \in {0, 1}, out \in StdoutSamples, errs \in StderrSamples,
        keep \in BOOLEAN :
       child' = [child EXCEPT
         !.state = "exited",
         !.status = status,
         !.stdin = IF @ = "none" THEN "none" ELSE "closed",
         !.stdout = out,
         !.stderr = errs,
         !.outOpen = keep,
         !.duringCall = pc \in {"write", "flush", "wait"}]
  /\ UNCHANGED <<args, commits, cliResult, patterns, inv, files,
                 hookResult, truncated, agent, signature, onPath, staged, gitErr, pc, log, diff,
                 prompt, spawned, which, now, deadline, execResult, cause,
                 raw_response, cleaned, final_message, validated, genResult>>

\* The last holder of the child's output pipes closes them.
ChildCloseOutputs ==
  /\ child.state = "exited"
  /\ child.outOpen
  /\ ~TimerDue
  /\ child' = [child EXCEPT !.outOpen = FALSE]
  /\ UNCHANGED <<args, commits, cliResult, patterns, inv, files,
                 hookResult, truncated, agent, signature, onPath, staged, gitErr, pc, log, diff,
                 prompt, spawned, which, now, deadline, execResult, cause,
                 raw_response, cleaned, final_message, validated, genResult>>

\* Last clock value the model follows.
Horizon == MaxWhichTicks * TickSecs + AGENT_TIMEOUT + TickSecs

\* Time passes while the executor is suspended and its timer is not due.
Tick ==
  /\ Blocked
  /\ ~TimerDue
  /\ pc = "check_wait" => now < MaxWhichTicks * TickSecs
  /\ now < Horizon
  /\ now' = IF deadline >= 0 /\ now < deadline
              THEN Min(now + TickSecs, deadline)
              ELSE now + TickSecs
  /\ UNCHANGED <<args, commits, cliResult, patterns, inv, files,
                 hookResult, truncated, agent, signature, onPath, staged, gitErr, pc, log, diff,
                 prompt, spawned, which, child, deadline, execResult, cause,
                 raw_response, cleaned, final_message, validated, genResult>>

Next ==
  \/ GenHasStaged
  \/ GenGetDiff
  \/ GenBuildPrompt
  \/ GenExecute
  \/ CheckSpawn
  \/ WhichExit
  \/ CheckDone
  \/ Spawn
  \/ WriteAll
  \/ Flush
  \/ WaitDone
  \/ TimeoutElapsed
  \/ GenAfterExecute
  \/ GenClean
  \/ GenSignature
  \/ GenValidate
  \/ ChildStdin
  \/ ChildExit
  \/ ChildCloseOutputs
  \/ Tick

Spec == Init /\ [][Next]_vars

\* ------------------------------------------------------ cli.rs run_generate
\* cli.rs:95-127  parse the agent name (`?`), build the provider, the agent
\* and the signature, and call generate_commit_message.
CliStart ==
  /\ pc = "cli_start"
  /\ LET agent_name == from_str(args.agent) IN
     IF agent_name = "None"
       THEN /\ cliResult' = "invalid_agent"
            /\ pc' = "cli_done"
            /\ UNCHANGED <<agent, signature>>
       ELSE /\ agent' = agent_name
            /\ signature' = Some(CliSignature(agent_name))
            /\ pc' = "gen_start"
            /\ UNCHANGED cliResult
  /\ UNCHANGED <<args, commits, patterns, inv, files, hookResult, truncated,
                 onPath, staged, gitErr, log, diff, prompt, spawned, which,
                 child, now, deadline, execResult, cause, raw_response,
                 cleaned, final_message, validated, genResult>>

\* CliFinish committing also under --dry-run.
CliFinish_CommitOnDryRun ==
  /\ pc = "gen_done"
  /\ args.present
  /\ pc' = "cli_done"
  /\ IF genResult.tag = "Ok"
       THEN IF args.message_only
              THEN /\ cliResult' = "ok"
                   /\ UNCHANGED <<commits, log>>
              ELSE /\ log' = Append(log, "commit")
                   /\ \E ok \in BOOLEAN :
                        /\ commits' = Append(commits,
                             [message |-> genResult.commit, ok |-> ok])
                        /\ cliResult' = IF ok THEN "ok" ELSE "commit_failed"
       ELSE /\ cliResult' = "generation_failed"
            /\ UNCHANGED <<commits, log>>
  /\ UNCHANGED <<args, patterns, inv, files, hookResult, truncated, agent,
                 signature, onPath, staged, gitErr, diff, prompt, spawned,
                 which, child, now, deadline, execResult, cause,
                 raw_response, cleaned, final_message, validated, genResult>>

\* cli.rs:143-185  match result: print the message (--message-only,
\* --dry-run), or git.commit(commit.as_str()) with `?`, or format_error and
\* Err("generation failed").
CliFinish ==
  /\ pc = "gen_done"
  /\ args.present
  /\ pc' = "cli_done"
  /\ IF genResult.tag = "Ok"
       THEN IF args.message_only \/ args.dry_run
              THEN /\ cliResult' = "ok"
                   /\ UNCHANGED <<commits, log>>
              ELSE /\ log' = Append(log, "commit")
                   /\ \E ok \in BOOLEAN :
                        /\ commits' = Append(commits,
                             [message |-> genResult.commit, ok |-> ok])
                        /\ cliResult' = IF ok THEN "ok" ELSE "commit_failed"
       ELSE /\ cliResult' = "generation_failed"
            /\ UNCHANGED <<commits, log>>
  /\ UNCHANGED <<args, patterns, inv, files, hookResult, truncated, agent,
                 signature, onPath, staged, gitErr, diff, prompt, spawned,
                 which, child, now, deadline, execResult, cause,
                 raw_response, cleaned, final_message, validated, genResult>>

\* The generate command is started with some flags; nothing has run yet.
CliInit ==
  /\ args \in { GenerateArgs(a, dry, only) :
                  a \in AgentStrings, dry \in BOOLEAN, only \in BOOLEAN }
  /\ agent = "None"
  /\ signature = NoSignature
  /\ onPath \in BOOLEAN
  /\ staged = "unasked"
  /\ gitErr = NoGitError
  /\ pc = "cli_start"
  /\ log = <<>>
  /\ diff = NoDiff
  /\ prompt = <<>>
  /\ spawned = <<>>
  /\ which = "none"
  /\ child = NoChild
  /\ now = 0
  /\ deadline = -1
  /\ execResult = NoResult
  /\ cause = "none"
  /\ raw_response = <<>>
  /\ cleaned = <<>>
  /\ final_message = <<>>
  /\ validated = NotValidated
  /\ genResult = GenNone
  /\ commits = <<>>
  /\ cliResult = CliNone
  /\ patterns = {}
  /\ inv = NoInvocations
  /\ files = NoFiles
  /\ hookResult = HookNone
  /\ truncated = <<>>

CliNext ==
  \/ CliStart
  \/ Next
  \/ CliFinish

CliSpec == CliInit /\ [][CliNext]_vars

\* ----------------------------------- concurrent generate_commit_message
\* A caller (for instance two tokio tasks) with two calls of
\* generate_commit_message in progress at once.  Each call owns its
\* arguments and locals; the Lazy statics are the memory they share.
Invocations == {1, 2}

\* What the environment answers one call: has_staged_changes (with the error
\* it fails with), get_staged_diff (Ok(diff) or Err(err)), and the value
\* Agent::execute returns for the prompt.
ProviderAnswers ==
  [staged : {"true", "false", "err"},
   staged_err : {Io(EIO)},
   diff_ok : BOOLEAN,
   diff : {[stat |-> <<>>, name_status |-> <<77, 9, 97>>, diff |-> <<43, 120>>]},
   diff_err : {WorktreeResolution(<<46, 103, 105, 116>>)},
   exec : { Ok(<<102, 101, 97, 116, 58, 32, 97, 100, 100, 32, 120>>),
            Ok(<<96, 96, 96, 10, 70, 69, 65, 84, 58, 32, 111, 111, 112, 115,
                 10, 96, 96, 96>>),
            Err(Timeout("Codex", AGENT_TIMEOUT)) },
   signature : {NoSignature, Some(<<102, 105, 120, 58, 32, 121>>)}]

\* The locals of one call before its first step.
NewInvocation(answers) ==
  [answers |-> answers, pc |-> "gen_start", diff |-> NoDiff,
   prompt |-> <<>>, raw_response |-> <<>>, cleaned |-> <<>>,
   final_message |-> <<>>, validated |-> NotValidated, result |-> GenNone]

\* Call i returns r.
Return(i, r) == inv' = [inv EXCEPT ![i].pc = "gen_done", ![i].result = r]

\* lib.rs:65-67
ConcHasStaged(i) ==
  /\ inv[i].pc = "gen_start"
  /\ CASE inv[i].answers.staged = "true" ->
            inv' = [inv EXCEPT ![i].pc = "gen_diff"]
       [] inv[i].answers.staged = "false" ->
            Return(i, GenGit(NoStagedChanges))
       [] OTHER -> Return(i, GenGit(inv[i].answers.staged_err))
  /\ UNCHANGED patterns

\* lib.rs:70
ConcGetDiff(i) ==
  /\ inv[i].pc = "gen_diff"
  /\ IF inv[i].answers.diff_ok
       THEN inv' = [inv EXCEPT ![i].pc = "gen_prompt",
                               ![i].diff = inv[i].answers.diff]
       ELSE Return(i, GenGit(inv[i].answers.diff_err))
  /\ UNCHANGED patterns

\* lib.rs:73
ConcBuildPrompt(i) ==
  /\ inv[i].pc = "gen_prompt"
  /\ inv' = [inv EXCEPT ![i].pc = "gen_exec",
                        ![i].prompt = build_prompt(inv[i].diff)]
  /\ patterns' = patterns \cup PromptStatics

\* lib.rs:76  agent.execute(&prompt).await?  -- the call suspends here and
\* resumes with the value execute returns.
ConcExecute(i) ==
  /\ inv[i].pc = "gen_exec"
  /\ IF inv[i].answers.exec.tag = "Err"
       THEN Return(i, GenAgent(inv[i].answers.exec.err))
       ELSE inv' = [inv EXCEPT ![i].pc = "gen_clean",
                               ![i].raw_response = inv[i].answers.exec.value]
  /\ UNCHANGED patterns

\* ConcClean with the cleaned text kept in one buffer that all calls use.
ConcClean_SharedBuffer(i) ==
  /\ inv[i].pc = "gen_clean"
  /\ inv' = [j \in Invocations |->
               [inv[j] EXCEPT
                  !.cleaned = clean_ai_response(inv[i].raw_response),
                  !.pc = IF j = i THEN "gen_sign" ELSE @]]
  /\ patterns' = patterns \cup CleanerStatics

\* lib.rs:79
ConcClean(i) ==
  /\ inv[i].pc = "gen_clean"
  /\ inv' = [inv EXCEPT ![i].pc = "gen_sign",
                        ![i].cleaned = clean_ai_response(inv[i].raw_response)]
  /\ patterns' = patterns \cup CleanerStatics

\* lib.rs:82-86
ConcSignature(i) ==
  /\ inv[i].pc = "gen_sign"
  /\ inv' = [inv EXCEPT
       ![i].pc = "gen_validate",
       ![i].final_message =
          IF inv[i].answers.signature.some
            THEN AppendSignature(inv[i].cleaned, inv[i].answers.signature.text)
            ELSE inv[i].cleaned]
  /\ UNCHANGED patterns

\* lib.rs:89-93
ConcValidate(i) ==
  /\ inv[i].pc = "gen_validate"
  /\ LET v == validate(inv[i].final_message) IN
     inv' = [inv EXCEPT
       ![i].pc = "gen_done",
       ![i].validated = v,
       ![i].result = IF v.tag = "Ok" THEN GenOk(v)
                     ELSE GenValidation(ValidationDisplay(v))]
  /\ patterns' = patterns \cup ValidatorStatics(inv[i].final_message)

\* One of the calls takes its next step.
ConcStep ==
  /\ \E i \in Invocations :
       \/ ConcHasStaged(i)
       \/ ConcGetDiff(i)
       \/ ConcBuildPrompt(i)
       \/ ConcExecute(i)
       \/ ConcClean(i)
       \/ ConcSignature(i)
       \/ ConcValidate(i)
  /\ UNCHANGED <<args, commits, cliResult, files, hookResult, truncated,
                 agent, signature, onPath, staged, gitErr, pc, log, diff,
                 prompt, spawned, which, child, now, deadline, execResult,
                 cause, raw_response, cleaned, final_message, validated,
                 genResult>>

ConcInit ==
  /\ inv \in [Invocations -> { NewInvocation(a) : a \in ProviderAnswers }]
  /\ patterns = {}
  /\ pc = "concurrent"
  /\ agent = "None"
  /\ signature = NoSignature
  /\ onPath = FALSE
  /\ staged = "unasked"
  /\ gitErr = NoGitError
  /\ log = <<>>
  /\ diff = NoDiff
  /\ prompt = <<>>
  /\ spawned = <<>>
  /\ which = "none"
  /\ child = NoChild
  /\ now = 0
  /\ deadline = -1
  /\ execResult = NoResult
  /\ cause = "none"
  /\ raw_response = <<>>
  /\ cleaned = <<>>
  /\ final_message = <<>>
  /\ validated = NotValidated
  /\ genResult = GenNone
  /\ args = NoArgs
  /\ commits = <<>>
  /\ cliResult = CliNone
  /\ files = NoFiles
  /\ hookResult = HookNone
  /\ truncated = <<>>

ConcSpec == ConcInit /\ [][ConcStep]_vars

\* ------------------------------------------------- prompt.rs truncate_diff
\* n times the byte b
Repeat(b, n) == [i \in 1..n |-> b]

\* Nothing, "a", U+00E9 (C3 A9), U+20AC (E2 82 AC), U+1F980 (F0 9F A6 80).
TruncateChars ==
  { <<>>, <<97>>, <<195, 169>>, <<226, 130, 172>>, <<240, 159, 166, 128>> }

\* Diffs around the budget: a run of "a", two characters of one to four
\* bytes, a run of "b"; and the short diffs of DiffSamples.
TruncateInputs ==
  { Repeat(97, n) \o c1 \o c2 \o Repeat(98, m) :
      n \in (MAX_DIFF_LENGTH - MaxSlack)..(MAX_DIFF_LENGTH + 1),
      c1 \in TruncateChars, c2 \in TruncateChars, m \in 0..MaxTail }
  \cup { d.diff : d \in DiffSamples }

\* build_prompt is about to call truncate_diff(&diff.diff).
TruncateInit ==
  /\ diff \in { [NoDiff EXCEPT !.diff = d] : d \in TruncateInputs }
  /\ truncated = <<>>
  /\ pc = "truncate_call"
  /\ agent = "None"
  /\ signature = NoSignature
  /\ onPath = FALSE
  /\ staged = "unasked"
  /\ gitErr = NoGitError
  /\ log = <<>>
  /\ prompt = <<>>
  /\ spawned = <<>>
  /\ which = "none"
  /\ child = NoChild
  /\ now = 0
  /\ deadline = -1
  /\ execResult = NoResult
  /\ cause = "none"
  /\ raw_response = <<>>
  /\ cleaned = <<>>
  /\ final_message = <<>>
  /\ validated = NotValidated
  /\ genResult = GenNone
  /\ args = NoArgs
  /\ commits = <<>>
  /\ cliResult = CliNone
  /\ patterns = {}
  /\ inv = NoInvocations
  /\ files = NoFiles
  /\ hookResult = HookNone

\* truncate_diff(&diff.diff)
TruncateCall ==
  /\ pc = "truncate_call"
  /\ truncated' = truncate_diff(diff.diff)
  /\ pc' = "truncate_ret"
  /\ UNCHANGED <<args, commits, cliResult, patterns, inv, files, hookResult,
                 agent, signature, onPath, staged, gitErr, log, diff, prompt,
                 spawned, which, child, now, deadline, execResult, cause,
                 raw_response, cleaned, final_message, validated, genResult>>

TruncateSpec == TruncateInit /\ [][TruncateCall]_vars

\* ------------------------------------------------ hooks/managers.rs
\* install_lefthook(cwd, agent), on the configuration files of cwd.  A file
\* is a record: whether it exists, whether it may be read, and its bytes.

\* config_files (managers.rs:15-20), in the order they are looked for.
config_files ==
  <<"lefthook.yml", ".lefthook.yml", "lefthook.yaml", ".lefthook.yaml">>

NoFile == [exists |-> FALSE, readable |-> FALSE, content |-> <<>>]

FileOf(c) == [exists |-> TRUE, readable |-> TRUE, content |-> c]

\* A file fs::read_to_string fails on.
Unreadable(c) == [exists |-> TRUE, readable |-> FALSE, content |-> c]

\* "prepare-commit-msg"
HookKey ==
  <<112, 114, 101, 112, 97, 114, 101, 45, 99, 111, 109, 109, 105, 116, 45,
    109, 115, 103>>

\* "prepare-commit-msg:", the text install_lefthook looks for.
HookKeyColon ==
  <<112, 114, 101, 112, 97, 114, 101, 45, 99, 111, 109, 109, 105, 116, 45,
    109, 115, 103, 58>>

\* "pre-commit"
PreCommitKey ==
  <<112, 114, 101, 45, 99, 111, 109, 109, 105, 116>>

\* The body of a hook with one command, as serde_yaml writes it:
\* "  commands:\n    lint:\n      run: npm run lint\n"
LintBody ==
  <<32, 32, 99, 111, 109, 109, 97, 110, 100, 115, 58, 10, 32, 32, 32, 32,
    108, 105, 110, 116, 58, 10, 32, 32, 32, 32, 32, 32, 114, 117, 110, 58,
    32, 110, 112, 109, 32, 114, 117, 110, 32, 108, 105, 110, 116, 10>>

\* "  commands:\n    custom:\n      run: echo hi\n"
CustomBody ==
  <<32, 32, 99, 111, 109, 109, 97, 110, 100, 115, 58, 10, 32, 32, 32, 32,
    99, 117, 115, 116, 111, 109, 58, 10, 32, 32, 32, 32, 32, 32, 114, 117,
    110, 58, 32, 101, 99, 104, 111, 32, 104, 105, 10>>

\* A comment line, "# prepare-commit-msg: handled by hand\n"
HookComment ==
  <<35, 32, 112, 114, 101, 112, 97, 114, 101, 45, 99, 111, 109, 109, 105,
    116, 45, 109, 115, 103, 58, 32, 104, 97, 110, 100, 108, 101, 100, 32,
    98, 121, 32, 104, 97, 110, 100, 10>>

\* A YAML document that is a list, "- pre-commit\n"
NotAMapping ==
  <<45, 32, 112, 114, 101, 45, 99, 111, 109, 109, 105, 116, 10>>

\* hook_entry as serde_yaml writes it, up to the agent name of run_script.
HookBodyHead ==
  <<32, 32, 115, 107, 105, 112, 58, 10, 32, 32, 45, 32, 109, 101, 114, 103,
    101, 10, 32, 32, 45, 32, 114, 101, 98, 97, 115, 101, 10, 32, 32, 99,
    111, 109, 109, 97, 110, 100, 115, 58, 10, 32, 32, 32, 32, 99, 111, 109,
    109, 105, 116, 109, 101, 110, 116, 58, 10, 32, 32, 32, 32, 32, 32, 114,
    117, 110, 58, 32, 124, 45, 10, 32, 32, 32, 32, 32, 32, 32, 32, 99, 97,
    115, 101, 32, 34, 123, 50, 125, 34, 32, 105, 110, 10, 32, 32, 32, 32,
    32, 32, 32, 32, 32, 32, 42, 34, 123, 34, 42, 41, 10, 32, 32, 32, 32, 32,
    32, 32, 32, 32, 32, 32, 32, 101, 99, 104, 111, 32, 34, 240, 159, 164,
    150, 32, 71, 101, 110, 101, 114, 97, 116, 105, 110, 103, 32, 99, 111,
    109, 109, 105, 116, 32, 109, 101, 115, 115, 97, 103, 101, 46, 46, 46,
    34, 32, 62, 32, 47, 100, 101, 118, 47, 116, 116, 121, 32, 50, 62, 47,
    100, 101, 118, 47, 110, 117, 108, 108, 32, 124, 124, 32, 116, 114, 117,
    101, 10, 32, 32, 32, 32, 32, 32, 32, 32, 32, 32, 32, 32, 99, 111, 109,
    109, 105, 116, 109, 101, 110, 116, 32, 45, 45, 97, 103, 101, 110, 116,
    32>>

\* hook_entry after the agent name.
HookBodyTail ==
  <<32, 45, 45, 109, 101, 115, 115, 97, 103, 101, 45, 111, 110, 108, 121,
    32, 62, 32, 34, 123, 49, 125, 34, 10, 32, 32, 32, 32, 32, 32, 32, 32,
    32, 32, 32, 32, 59, 59, 10, 32, 32, 32, 32, 32, 32, 32, 32, 101, 115,
    97, 99, 10, 32, 32, 32, 32, 32, 32, 105, 110, 116, 101, 114, 97, 99,
    116, 105, 118, 101, 58, 32, 116, 114, 117, 101, 10>>

\* run_script inside hook_entry for agent a (managers.rs:56-80).
HookBody(a) == HookBodyHead \o AgentDisplay(a) \o HookBodyTail

\* String::contains
contains(s, w) == Find(s, 1, w) # 0

\* Position of the line feed ending the line that starts at i, Len(s) + 1
\* when the line is the last and has none.
LineEnd(s, i) ==
  LET e == Find(s, i, <<10>>) IN IF e = 0 THEN Len(s) + 1 ELSE e

\* The line starting at i opens a top-level entry: it is neither empty, nor
\* indented, nor a comment.
TopLevelAt(s, i) ==
  /\ i <= Len(s)
  /\ s[i] \notin {10, 32, 35}

\* Start of the first top-level line at or after the line starting at i,
\* Len(s) + 1 when there is none.
RECURSIVE NextTopLevel(_, _)
NextTopLevel(s, i) ==
  IF i > Len(s) THEN Len(s) + 1
  ELSE IF TopLevelAt(s, i) THEN i
  ELSE NextTopLevel(s, LineEnd(s, i) + 1)

\* The key of a top-level line "key:", "key :", "\"key\":" or "'key':";
\* <<>> when the line is no mapping entry.
KeyOf(line) ==
  IF line[1] \in {34, 39}
  THEN LET q == Find(line, 2, <<line[1]>>) IN
       IF q # 0 /\ HasAt(line, SkipWhite(line, q + 1), <<58>>)
       THEN SubSeq(line, 2, q - 1) ELSE <<>>
  ELSE LET c == Find(line, 1, <<58>>) IN
       IF c = 0 THEN <<>> ELSE trim(SubSeq(line, 1, c - 1))

\* The top-level entries of a block-style YAML document from position i, in
\* the order of the text: the key, and the indented lines under it.
RECURSIVE TopLevelEntries(_, _)
TopLevelEntries(s, i) ==
  LET a == NextTopLevel(s, i) IN
  IF a > Len(s) THEN <<>>
  ELSE LET e    == LineEnd(s, a)
           next == NextTopLevel(s, e + 1)
       IN  <<[name |-> KeyOf(SubSeq(s, a, e - 1)),
              body |-> SubSeq(s, e + 1, next - 1)]>>
           \o TopLevelEntries(s, next)

\* "commands:", the field a LefthookHook must have (managers.rs:235-239).
CommandsField == <<99, 111, 109, 109, 97, 110, 100, 115, 58>>

\* serde_yaml::from_str::<LefthookConfig> of a document whose keys differ:
\* its hooks, or an error when an entry is no "key:" line or a hook lacks
\* its commands.
from_str_yaml(s) ==
  LET es == TopLevelEntries(s, 1) IN
  IF \E k \in 1..Len(es) :
        \/ es[k].name = <<>>
        \/ ~contains(es[k].body, CommandsField)
  THEN [ok |-> FALSE, hooks |-> <<>>]
  ELSE [ok |-> TRUE, hooks |-> es]

\* The document names the hook: what a prepare-commit-msg hook in the
\* configuration is to lefthook.
HasHook(s) ==
  \E k \in 1..Len(TopLevelEntries(s, 1)) :
     TopLevelEntries(s, 1)[k].name = HookKey

\* config.hooks.insert("prepare-commit-msg", hook_entry): the entry of that
\* name is replaced.  hooks is a HashMap, so the entries have no order.
insert(es, a) ==
  { es[k] : k \in { j \in 1..Len(es) : es[j].name # HookKey } }
    \cup {[name |-> HookKey, body |-> HookBody(a)]}

\* serde_yaml::to_string of one entry: the key unquoted, then its body.
EntryText(e) == e.name \o <<58, 10>> \o e.body

\* The orders a HashMap of the hooks hs may be iterated in.
Orders(hs) ==
  { o \in [1..Cardinality(hs) -> hs] :
      \A i, j \in 1..Cardinality(hs) : i # j => o[i] # o[j] }

RECURSIVE to_string_yaml(_)
to_string_yaml(o) ==
  IF o = <<>> THEN <<>> ELSE EntryText(Head(o)) \o to_string_yaml(Tail(o))

\* Index in config_files of config_path (managers.rs:22-26): the first file
\* that exists, lefthook.yml when none does.
config_path(fs) ==
  LET found == { i \in 1..Len(config_files) : fs[i].exists } IN
  IF found = {} THEN 1 ELSE CHOOSE i \in found : \A j \in found : i <= j

\* Top-level key lines a configuration may spell the hook's key with.
KeyLines(k) ==
  { k \o <<58, 10>>,
    <<34>> \o k \o <<34, 58, 10>>,
    <<39>> \o k \o <<39, 58, 10>>,
    k \o <<32, 58, 10>> }

\* Configurations of the working directory: other hooks only, the
\* hook under each spelling of its key, before or after another hook, after
\* a blank line as in the tests (managers.rs:281-286, 418-423), a comment
\* mentioning the key, and a document that is no mapping.
ConfigTexts ==
  LET other == PreCommitKey \o <<58, 10>> \o LintBody
      hooks == { l \o CustomBody : l \in KeyLines(HookKey) }
  IN  {other, <<10>> \o other, HookComment \o other, NotAMapping}
        \cup hooks
        \cup { <<10>> \o h : h \in hooks }
        \cup { other \o h : h \in hooks }
        \cup { h \o other : h \in hooks }

\* The directories install_lefthook is called in: lefthook.yml is absent,
\* unreadable or any configuration; .lefthook.yml is absent or a
\* configuration with or without the hook; the .yaml names are absent, or
\* lefthook.yaml holds another hook.
Directories ==
  { <<a, b, c, NoFile>> :
      a \in {NoFile} \cup { FileOf(t) : t \in ConfigTexts }
              \cup { Unreadable(HookKeyColon \o <<10>> \o CustomBody) },
      b \in {NoFile, FileOf(HookKeyColon \o <<10>> \o CustomBody),
             FileOf(PreCommitKey \o <<58, 10>> \o LintBody)},
      c \in {NoFile, FileOf(PreCommitKey \o <<58, 10>> \o LintBody)} }

HookInit ==
  /\ pc = "hook_call"
  /\ agent \in AgentNames
  /\ files \in Directories
  /\ hookResult = HookNone
  /\ signature = NoSignature
  /\ onPath = FALSE
  /\ staged = "unasked"
  /\ gitErr = NoGitError
  /\ log = <<>>
  /\ diff = NoDiff
  /\ prompt = <<>>
  /\ spawned = <<>>
  /\ which = "none"
  /\ child = NoChild
  /\ now = 0
  /\ deadline = -1
  /\ execResult = NoResult
  /\ cause = "none"
  /\ raw_response = <<>>
  /\ cleaned = <<>>
  /\ final_message = <<>>
  /\ validated = NotValidated
  /\ genResult = GenNone
  /\ args = NoArgs
  /\ commits = <<>>
  /\ cliResult = CliNone
  /\ patterns = {}
  /\ inv = NoInvocations
  /\ truncated = <<>>

\* The end of install_lefthook from the configuration hs it holds
\* (managers.rs:81-93): serialise, write config_path, return.  fs::write
\* fails before a byte is written when the file may not be opened.
WriteConfig(p, hs) ==
  \/ \E o \in Orders(insert(hs, agent)) :
       /\ files' = [files EXCEPT ![p] = FileOf(to_string_yaml(o))]
       /\ hookResult' = "Ok"
       /\ log' = log
  \/ /\ files' = files
     /\ hookResult' = "ScriptCreationFailed"
     /\ log' = log

\* install_lefthook(cwd, agent) (managers.rs:13-93)
InstallLefthook ==
  /\ pc = "hook_call"
  /\ pc' = "hook_ret"
  /\ LET p == config_path(files) IN
     IF files[p].exists
     THEN IF ~files[p].readable
          THEN hookResult' = "Io" /\ files' = files /\ log' = log
          ELSE IF contains(files[p].content, HookKeyColon)
          THEN /\ log' = Append(log, "warning")
               /\ hookResult' = "Ok"
               /\ files' = files
          ELSE IF ~from_str_yaml(files[p].content).ok
          THEN /\ hookResult' = "ConfigParseFailed"
               /\ files' = files
               /\ log' = log
          ELSE WriteConfig(p, from_str_yaml(files[p].content).hooks)
     ELSE WriteConfig(p, <<>>)
  /\ UNCHANGED <<args, commits, cliResult, patterns, inv, truncated, agent,
                 signature, onPath, staged, gitErr, diff, prompt, spawned,
                 which, child, now, deadline, execResult, cause,
                 raw_response, cleaned, final_message, validated, genResult>>

HookSpec == HookInit /\ [][InstallLefthook]_vars

\* ---------------------------------------------- the public text functions
\* lib.rs:2,6 export clean_ai_response and ConventionalCommit::validate; a
\* caller may apply them to any text.
\* Pieces of agent responses: the two markers, a fence, the preamble
\* "Here is: ", the thinking tags, "feat: x", " ", "\n" and "\n\n\n".
CleanTokens ==
  { MarkerStart, MarkerEnd, Fence, ThinkingOpen, ThinkingClose,
    <<72, 101, 114, 101, 32, 105, 115, 58, 32>>,
    <<102, 101, 97, 116, 58, 32, 120>>,
    <<32>>, <<10>>, <<10, 10, 10>> }

\* The texts made of at most n tokens.
RECURSIVE TokenStrings(_)
TokenStrings(n) ==
  IF n = 0 THEN { <<>> }
  ELSE LET shorter == TokenStrings(n - 1) IN
       shorter \cup { s \o t : s \in shorter, t \in CleanTokens }

\* What may open a response: a fence ("```", "```\n", "```text\n"), a
\* thinking block ("<thinking>x</thinking>", also followed by "\n"), or
\* nothing.
ResponseOpeners ==
  { <<>>, Fence, Fence \o <<10>>, Fence \o <<116, 101, 120, 116, 10>>,
    ThinkingOpen \o <<120>> \o ThinkingClose,
    ThinkingOpen \o <<120>> \o ThinkingClose \o <<10>> }
\* "Here is: " and "Here's the commit message:\n"
PreambleSamples ==
  { <<72, 101, 114, 101, 32, 105, 115, 58, 32>>,
    <<72, 101, 114, 101, 39, 115, 32, 116, 104, 101, 32, 99, 111, 109, 109,
      105, 116, 32, 109, 101, 115, 115, 97, 103, 101, 58, 10>> }
\* "feat: x" and "feat: x\n\nbody"
ResponseBodies ==
  { <<102, 101, 97, 116, 58, 32, 120>>,
    <<102, 101, 97, 116, 58, 32, 120, 10, 10, 98, 111, 100, 121>> }
\* What may close a response: nothing, "```", "\n```", "\n```\n".
ResponseClosers ==
  { <<>>, Fence, <<10>> \o Fence, <<10>> \o Fence \o <<10>> }

\* Responses that wrap a message: an opener, possibly a preamble, a body
\* and a closer.
WrappedResponses ==
  { open \o pre \o body \o close :
      open \in ResponseOpeners, pre \in PreambleSamples \cup { <<>> },
      body \in ResponseBodies, close \in ResponseClosers }

CleanInputs == TokenStrings(MaxTokens) \cup WrappedResponses

\* Texts given to validate: white space, a leading token, a scope, a
\* separator, a description and trailing white space, each possibly absent
\* or malformed.  U+00A0 is C2 A0.
ValidateLeads == { <<>>, <<32, 10>>, <<194, 160>> }
\* The type tags documented for validate (types.rs:119): feat, fix, docs, style, refactor, test, chore, perf,
\* build, ci, revert.
ElevenTypes ==
  { <<102, 101, 97, 116>>,
    <<102, 105, 120>>,
    <<100, 111, 99, 115>>,
    <<115, 116, 121, 108, 101>>,
    <<114, 101, 102, 97, 99, 116, 111, 114>>,
    <<116, 101, 115, 116>>,
    <<99, 104, 111, 114, 101>>,
    <<112, 101, 114, 102>>,
    <<98, 117, 105, 108, 100>>,
    <<99, 105>>,
    <<114, 101, 118, 101, 114, 116>> }

\* the eleven types, and "FEAT", "Fix", "wip", "feature", ""
ValidateTokens ==
  ElevenTypes \cup
  { <<70, 69, 65, 84>>,
    <<70, 105, 120>>,
    <<119, 105, 112>>,
    <<102, 101, 97, 116, 117, 114, 101>>,
    <<>> }
\* "", "(api)", "(a-1)", "(API)", "()", "(a b)", "(api"
ValidateScopes ==
  { <<>>,
    <<40, 97, 112, 105, 41>>,
    <<40, 97, 45, 49, 41>>,
    <<40, 65, 80, 73, 41>>,
    <<40, 41>>,
    <<40, 97, 32, 98, 41>>,
    <<40, 97, 112, 105>> }
\* ": ", ":", " ", ""
ValidateSeparators == { <<58, 32>>, <<58>>, <<32>>, <<>> }
\* "", "x", "oops", "\nbody", "x\n\nbody: y", " "
ValidateDescriptions ==
  { <<>>,
    <<120>>,
    <<111, 111, 112, 115>>,
    <<10, 98, 111, 100, 121>>,
    <<120, 10, 10, 98, 111, 100, 121, 58, 32, 121>>,
    <<32>> }
ValidateTrails == { <<>>, <<32, 10>>, <<194, 160>> }

ValidateInputs ==
  { lead \o token \o scope \o sep \o desc \o trail :
      lead \in ValidateLeads, token \in ValidateTokens,
      scope \in ValidateScopes, sep \in ValidateSeparators,
      desc \in ValidateDescriptions, trail \in ValidateTrails }

\* A caller holding the text raw_response is about to call
\* clean_ai_response; nothing else of the program is in use.
CleanInit ==
  /\ agent = "None"
  /\ signature = NoSignature
  /\ onPath = FALSE
  /\ staged = "unasked"
  /\ gitErr = NoGitError
  /\ pc = "clean_call"
  /\ log = <<>>
  /\ diff = NoDiff
  /\ prompt = <<>>
  /\ spawned = <<>>
  /\ which = "none"
  /\ child = NoChild
  /\ now = 0
  /\ deadline = -1
  /\ execResult = NoResult
  /\ cause = "none"
  /\ raw_response \in CleanInputs
  /\ cleaned = <<>>
  /\ final_message = <<>>
  /\ validated = NotValidated
  /\ genResult = GenNone
  /\ args = NoArgs
  /\ commits = <<>>
  /\ cliResult = CliNone
  /\ patterns = {}
  /\ inv = NoInvocations
  /\ files = NoFiles
  /\ hookResult = HookNone
  /\ truncated = <<>>

\* clean_ai_response(&raw_response)
CleanCall ==
  /\ pc = "clean_call"
  /\ patterns' = patterns \cup CleanerStatics
  /\ cleaned' = clean_ai_response(raw_response)
  /\ pc' = "clean_ret"
  /\ UNCHANGED <<args, commits, cliResult, inv, files,
                 hookResult, truncated, agent, signature, onPath, staged, gitErr, log, diff, prompt,
                 spawned, which, child, now, deadline, execResult, cause,
                 raw_response, final_message, validated, genResult>>

CleanSpec == CleanInit /\ [][CleanCall]_vars

\* A caller holding the text final_message is about to call
\* ConventionalCommit::validate.
ValidateInit ==
  /\ agent = "None"
  /\ signature = NoSignature
  /\ onPath = FALSE
  /\ staged = "unasked"
  /\ gitErr = NoGitError
  /\ pc = "validate_call"
  /\ log = <<>>
  /\ diff = NoDiff
  /\ prompt = <<>>
  /\ spawned = <<>>
  /\ which = "none"
  /\ child = NoChild
  /\ now = 0
  /\ deadline = -1
  /\ execResult = NoResult
  /\ cause = "none"
  /\ raw_response = <<>>
  /\ cleaned = <<>>
  /\ final_message \in ValidateInputs
  /\ validated = NotValidated
  /\ genResult = GenNone
  /\ args = NoArgs
  /\ commits = <<>>
  /\ cliResult = CliNone
  /\ patterns = {}
  /\ inv = NoInvocations
  /\ files = NoFiles
  /\ hookResult = HookNone
  /\ truncated = <<>>

\* ConventionalCommit::validate(&final_message)
ValidateCall ==
  /\ pc = "validate_call"
  /\ patterns' = patterns \cup ValidatorStatics(final_message)
  /\ validated' = validate(final_message)
  /\ pc' = "validate_ret"
  /\ UNCHANGED <<args, commits, cliResult, inv, files,
                 hookResult, truncated, agent, signature, onPath, staged, gitErr, log, diff, prompt,
                 spawned, which, child, now, deadline, execResult, cause,
                 raw_response, cleaned, final_message, genResult>>

ValidateSpec == ValidateInit /\ [][ValidateCall]_vars

\* ================================================================== claims
\* execute() has returned to generate_commit_message.
ExecReturned == cause # "none"

\* The programs spawned for the agent itself (everything but the lookup).
AgentSpawns == SelectSeq(spawned, LAMBDA c : c # "which")

\* C1: when has_staged_changes() answers false, generate_commit_message
\* returns the NoStagedChanges error, and in that run get_staged_diff is never
\* called, no prompt is built and no process is spawned.
C1_NoStagedChangesShortCircuits ==
  staged = "false" =>
    /\ pc = "gen_done"
    /\ genResult = GenGit(NoStagedChanges)
    /\ log = <<"has_staged_changes">>
    /\ prompt = <<>>
    /\ spawned = <<>>
    /\ child.state = "none"

C1_Witness == staged = "false" /\ pc = "gen_done" /\ genResult.tag = "Git"

\* C2 as stated: with the executable absent from the search path, execute
\* returns NotFound for the agent and no operating-system process at all has
\* been spawned during the call.
C2_Original ==
  (ExecReturned /\ ~onPath) =>
    /\ execResult = Err(NotFound(agent))
    /\ spawned = <<>>

\* C2 (amended): with the executable absent from the search path, execute
\* returns NotFound carrying the agent's identity; the availability check
\* precedes every spawn of the agent, and no agent process has been spawned
\* during the call: the only process it may have spawned is the `which`
\* lookup of the availability check itself.
C2_NotFoundWithoutAgentProcess ==
  /\ (ExecReturned /\ ~onPath) =>
       /\ execResult = Err(NotFound(agent))
       /\ spawned \in {<<>>, <<"which">>}
       /\ child.state = "none"
       /\ "spawn" \notin {log[i] : i \in 1..Len(log)}
  /\ \A i \in 1..Len(log) :
       log[i] = "spawn" => \E j \in 1..(i - 1) : log[j] = "check_command_exists"

C2_Witness ==
  /\ ExecReturned /\ ~onPath /\ agent = "Gemini"
  /\ cause = "not_on_path" /\ spawned = <<"which">>

C4_Original == now <= AGENT_TIMEOUT

\* C4 (amended): once the availability check has completed, execute returns
\* no later than AGENT_TIMEOUT after the agent process was started, whatever
\* that process does: the timer is armed at every point where the executor
\* can be suspended on the agent child (stdin write, exit, output
\* collection), and the call never stays pending past its deadline.  The
\* `which` lookup runs before the timer is armed and is not covered.
C4_BoundedOnceAgentStarted ==
  /\ pc \in {"write", "flush", "wait"} => deadline >= 0
  /\ deadline >= 0 => now <= deadline
  /\ (deadline >= 0 /\ ExecReturned) => now <= deadline
  /\ (Blocked /\ deadline >= 0 /\ now >= deadline) => ENABLED TimeoutElapsed

C4_Witness ==
  /\ cause = "elapsed" /\ now = deadline
  /\ child.state = "running" /\ child.stdin = "blocked"

\* C5: after execute has returned Timeout, the agent child process it spawned
\* is terminated and no longer running.
C5_ChildTerminatedAfterTimeout ==
  (ExecReturned /\ execResult.err.kind = "Timeout") => child.state # "running"

\* The agent child exited while execute was pending (hence before the
\* timeout) with the given success.
ExitedDuringCall(success) ==
  /\ ExecReturned
  /\ child.state = "exited" /\ child.duringCall
  /\ (child.status = 0) = success

\* C6 as stated: whenever the agent process exits with a non-zero status
\* before the timeout, execute returns ExecutionFailed with the agent's
\* identity and the captured standard-error text.
C6_Original ==
  ExitedDuringCall(FALSE) =>
    execResult = Err(ExecutionFailed(agent, from_utf8_lossy(child.stderr)))

\* C6 (amended): whenever wait_with_output completes without an I/O error
\* before the timeout and reports a non-zero status, execute returns
\* ExecutionFailed with the agent's identity and the captured, permissively
\* decoded standard-error text; and whenever the agent process exits non-zero
\* before the timeout, execute never returns Ok, whatever it wrote to
\* standard output (the result is ExecutionFailed, or Timeout when its
\* output streams stay open).
C6_NonZeroExitIsExecutionFailed ==
  /\ (cause = "output" /\ child.status # 0) =>
       execResult = Err(ExecutionFailed(agent, from_utf8_lossy(child.stderr)))
  /\ ExitedDuringCall(FALSE) =>
       /\ execResult.tag = "Err"
       /\ execResult.err.kind \in {"ExecutionFailed", "Timeout"}

C6_Witness ==
  /\ cause = "output" /\ child.status = 1
  /\ child.stdout # <<>> /\ child.stderr = <<255, 101>>
  /\ execResult.err.stderr = <<239, 191, 189, 101>>

\* The samples of StdoutSamples that are valid UTF-8.
ValidStdoutSamples == StdoutSamples \ { <<111, 107, 32, 255, 226, 130>> }

\* C7 as stated: whenever the agent process exits with status zero before the
\* timeout, execute returns Ok with exactly the captured standard-output
\* text.
C7_Original ==
  ExitedDuringCall(TRUE) => execResult = Ok(from_utf8_lossy(child.stdout))

\* C7 (amended): whenever wait_with_output completes without an I/O error
\* before the timeout and reports status zero, execute returns Ok with
\* exactly the captured standard-output text, permissively decoded, verbatim
\* and untrimmed; and Ok is returned in no other case.
C7_ZeroExitYieldsStdoutVerbatim ==
  /\ (cause = "output" /\ child.status = 0) =>
       /\ execResult = Ok(from_utf8_lossy(child.stdout))
       /\ child.stdout \in ValidStdoutSamples => execResult.value = child.stdout
  /\ (ExecReturned /\ execResult.tag = "Ok") =>
       /\ cause = "output"
       /\ ExitedDuringCall(TRUE)

C7_Witness ==
  /\ cause = "output" /\ child.status = 0
  /\ execResult.tag = "Ok"
  /\ execResult.value = <<32, 32, 102, 105, 120, 58, 32, 121, 32, 10>>

\* C8: every error returned by Agent::execute is one of NotFound,
\* ExecutionFailed or Timeout and carries the identity of the agent that was
\* dispatched; InvalidResponse is never raised, and a spawn error, a stdin
\* write or flush error and a wait error are all folded into ExecutionFailed.
C8_ErrorTaxonomy ==
  /\ ExecReturned => execResult.tag \in {"Ok", "Err"}
  /\ execResult.tag = "Err" =>
       /\ execResult.err.kind \in {"NotFound", "ExecutionFailed", "Timeout"}
       /\ execResult.err.agent = agent
  /\ cause \in {"spawn_error", "write_error", "flush_error", "wait_error"} =>
       /\ execResult.tag = "Err"
       /\ execResult.err.kind = "ExecutionFailed"

C8_Witness ==
  /\ agent = "Gemini" /\ cause = "wait_error"
  /\ execResult.err.kind = "ExecutionFailed"

\* The availability check of the call has passed.
CheckPassed == pc \in {"spawn", "write", "flush", "wait"}
                 \/ cause \notin {"none", "which_failed", "not_on_path"}

\* C9 as stated: each call to execute spawns exactly one operating-system
\* process: never more than one, and exactly one whenever the availability
\* check passes.
C9_Original ==
  /\ Len(spawned) <= 1
  /\ (ExecReturned /\ CheckPassed) => Len(spawned) = 1

\* C9 (amended): besides the one `which` lookup process of the availability
\* check, each call to execute spawns at most one process, the agent's (no
\* helper, no second attempt); when the availability check passes the agent
\* command is spawned exactly once, unless that spawn itself fails, and when
\* the check fails it is not spawned at all.
C9_OneAgentProcessPerCall ==
  /\ Len(AgentSpawns) <= 1
  /\ Len(spawned) <= 2
  /\ Len(spawned) = 2 => spawned = <<"which", RunCommand(agent)>>
  /\ (ExecReturned /\ CheckPassed /\ cause # "spawn_error") =>
       /\ spawned = <<"which", RunCommand(agent)>>
       /\ child.state # "none"
  /\ (ExecReturned /\ cause = "spawn_error") =>
       /\ spawned = <<"which">>
       /\ child.state = "none"
  /\ (ExecReturned /\ ~CheckPassed) => AgentSpawns = <<>>

C9_Witness ==
  /\ ExecReturned /\ cause = "output"
  /\ spawned = <<"which", "gemini">>

\* Positions of the event e in the log.
Positions(e) == {i \in 1..Len(log) : log[i] = e}

\* C10: for Claude and Codex the prompt is written to the child's standard
\* input, which is then flushed and closed before the executor waits for the
\* child's exit; for Gemini the prompt is passed as a single command-line
\* argument and nothing is ever written to the child's standard input.
C10_PromptDelivery ==
  /\ agent \in {"Claude", "Codex"} =>
       /\ \A w \in Positions("wait_with_output") :
            \E a \in Positions("write_all"), f \in Positions("flush"),
               c \in Positions("drop_stdin") : a < f /\ f < c /\ c < w
       /\ pc = "wait" =>
            /\ child.received = prompt
            /\ child.parentStdin = "closed"
       /\ child.received \in {<<>>, prompt}
       /\ agent = "Claude" /\ child.state # "none" => child.args = <<"--print">>
       /\ agent = "Codex" /\ child.state # "none" =>
            child.args = <<"exec", "--skip-git-repo-check">>
  /\ agent = "Gemini" =>
       /\ child.state # "none" =>
            /\ Len(child.args) = 2
            /\ child.args[1] = "-p"
            /\ child.args[2] = prompt
       /\ child.received = <<>>
       /\ child.parentStdin = "none"
       /\ Positions("write_all") = {}

C10_Witness ==
  /\ agent = "Claude" /\ pc = "wait"
  /\ prompt # <<>> /\ child.received = prompt
  /\ child.parentStdin = "closed"

\* s is an initial part of t.
IsPrefix(s, t) == Len(s) <= Len(t) /\ SubSeq(t, 1, Len(s)) = s

\* The steps of generate_commit_message, in the order of lib.rs:64-93.
StepOrder ==
  <<"has_staged_changes", "get_staged_diff", "build_prompt", "execute",
    "clean_ai_response", "append_signature", "validate">>

\* The steps generate_commit_message has run so far, in order.
GenSteps ==
  SelectSeq(log, LAMBDA e : \E k \in 1..Len(StepOrder) : StepOrder[k] = e)

\* C11: in one run of generate_commit_message the steps happen in the order
\* staged-check, diff fetch, prompt build, agent execute, clean, signature
\* append (when a signature was given), validate; each runs at most once, the
\* agent is invoked and spawned at most once, and once a step has failed no
\* later step ever runs.
C11_StepsInOrderOnceNoRetry ==
  /\ IsPrefix(GenSteps,
       IF signature.some THEN StepOrder
       ELSE SelectSeq(StepOrder, LAMBDA e : e # "append_signature"))
  /\ Len(AgentSpawns) <= 1
  /\ staged \in {"false", "err"} => GenSteps = SubSeq(StepOrder, 1, 1)
  /\ gitErr # NoGitError /\ staged = "true" =>
       GenSteps = SubSeq(StepOrder, 1, 2)
  /\ execResult.tag = "Err" => GenSteps = SubSeq(StepOrder, 1, 4)
  /\ validated.tag = "Err" => GenSteps[Len(GenSteps)] = "validate"
  /\ pc = "gen_done" /\ genResult.tag = "Ok" =>
       Len(GenSteps) = IF signature.some THEN 7 ELSE 6

C11_Witness ==
  /\ pc = "gen_done" /\ genResult.tag = "Ok"
  /\ signature.some
  /\ GenSteps = StepOrder
  /\ AgentSpawns = <<RunCommand(agent)>>

\* C12: when Agent::execute fails, generate_commit_message returns the unified
\* error's Agent variant holding that same agent error: same kind, same agent,
\* same stderr text, same timeout bound; and an error returned by the provider
\* is returned, with all its fields, in the Git variant.
C12_ErrorsPropagateUnchanged ==
  /\ (pc = "gen_done" /\ execResult.tag = "Err") =>
       /\ genResult.tag = "Agent"
       /\ genResult.agent_err.kind = execResult.err.kind
       /\ genResult.agent_err.agent = execResult.err.agent
       /\ genResult.agent_err.agent = agent
       /\ genResult.agent_err.stderr = execResult.err.stderr
       /\ genResult.agent_err.timeout_secs = execResult.err.timeout_secs
       /\ genResult.git_err = NoGitError /\ genResult.validation = <<>>
  /\ gitErr # NoGitError =>
       /\ pc = "gen_done"
       /\ genResult.tag = "Git"
       /\ genResult.git_err = gitErr
       /\ genResult.agent_err = NoError /\ genResult.validation = <<>>

C12_Witness ==
  /\ pc = "gen_done" /\ genResult.tag = "Agent"
  /\ genResult.agent_err.kind = "ExecutionFailed"
  /\ genResult.agent_err.stderr = <<97, 117, 116, 104, 32, 102, 97, 105, 108,
                                    101, 100, 10>>

\* C13: when validation of the final text fails, generate_commit_message
\* returns the Validation variant and what it carries is the validator's
\* error as structured data: for InvalidFormat the offending trimmed text
\* itself (cleaned text "FEAT: oops" without signature gives "FEAT: oops").
C13_ValidationErrorKeptStructured ==
  (pc = "gen_done" /\ validated.tag = "Err") =>
    /\ genResult.tag = "Validation"
    /\ validated.kind = "InvalidFormat" =>
         genResult.validation = validated.message

\* Every character of s is white space.
AllWhite(s) == SkipWhite(s, 1) > Len(s)

\* t is x without its leading and trailing white space.
IsTrimOf(t, x) ==
  /\ t # <<>> => WhiteAt(t, 1) = 0 /\ WhiteEndingAt(t, Len(t)) = 0
  /\ \E a \in 0..Len(x) :
       /\ a + Len(t) <= Len(x)
       /\ SubSeq(x, a + 1, a + Len(t)) = t
       /\ AllWhite(SubSeq(x, 1, a))
       /\ AllWhite(SubSeq(x, a + Len(t) + 1, Len(x)))

\* x without its leading and trailing white space is x from a to b.
TrimmedAt(x, a, b) ==
  /\ a <= b
  /\ WhiteAt(x, a) = 0
  /\ WhiteEndingAt(x, b) = 0
  /\ AllWhite(SubSeq(x, 1, a - 1))
  /\ AllWhite(SubSeq(x, b + 1, Len(x)))

\* t starts with a type tag, then optionally a parenthesised non-empty scope
\* of lowercase letters, digits and hyphens, then a colon, a space and a
\* description of at least one character on the same line.
StartsWithGrammar(t) ==
  \E ty \in ElevenTypes, n \in 0..Len(t) :
    LET scoped == n > 0
        colon == Len(ty) + (IF scoped THEN n + 2 ELSE 0) + 1
    IN /\ Len(t) >= colon + 2
       /\ SubSeq(t, 1, Len(ty)) = ty
       /\ scoped =>
            /\ t[Len(ty) + 1] = 40
            /\ \A k \in (Len(ty) + 2)..(Len(ty) + 1 + n) :
                 \/ t[k] \in 97..122
                 \/ t[k] \in 48..57
                 \/ t[k] = 45
            /\ t[Len(ty) + 2 + n] = 41
       /\ t[colon] = 58
       /\ t[colon + 1] = 32
       /\ t[colon + 2] # 10

\* C14: every ConventionalCommit value holds text that is non-empty, has no
\* leading or trailing white space and matches the conventional-commit
\* grammar at its start; a value comes into being only through validate, and
\* once it exists nothing changes it.
C14_CommitAlwaysValid ==
  /\ [](validated.tag = "Ok" =>
          /\ as_str(validated) # <<>>
          /\ WhiteAt(as_str(validated), 1) = 0
          /\ WhiteEndingAt(as_str(validated), Len(as_str(validated))) = 0
          /\ StartsWithGrammar(as_str(validated)))
  /\ [][validated' # validated =>
          /\ validated = NotValidated
          /\ pc \in {"validate_call", "gen_validate"}
          /\ final_message' = final_message]_vars

C14_Witness ==
  /\ pc = "validate_ret" /\ validated.tag = "Ok"
  /\ final_message # as_str(validated)
  /\ Len(as_str(validated)) > 12

\* C15: validate accepts a message exactly when, after trimming, it starts
\* with one of the eleven type tags, optionally followed by a parenthesised
\* scope of lowercase alphanumerics and hyphens, then a colon, a space and a
\* non-empty description; everything else (another leading token, an
\* uppercase type or scope, a missing colon, a missing description) is
\* rejected.
C15_ValidateAcceptsExactlyGrammar ==
  pc = "validate_ret" =>
    (validated.tag = "Ok" <=>
       \E a \in 1..Len(final_message), b \in 1..Len(final_message) :
         /\ TrimmedAt(final_message, a, b)
         /\ StartsWithGrammar(SubSeq(final_message, a, b)))

\* "revert(a-1): x" is accepted.
C15_Witness ==
  /\ pc = "validate_ret" /\ validated.tag = "Ok"
  /\ final_message = <<114, 101, 118, 101, 114, 116, 40, 97, 45, 49, 41, 58, 32, 120>>

\* C16: validate turns every rejected input into exactly one of two errors:
\* Empty when the input is empty after trimming, and otherwise InvalidFormat
\* whose message is the trimmed input.
C16_RejectionsClassified ==
  (pc = "validate_ret" /\ validated.tag = "Err") =>
    /\ validated.kind \in {"Empty", "InvalidFormat"}
    /\ validated.kind = "Empty" <=> AllWhite(final_message)
    /\ validated.kind = "Empty" => validated.message = <<>>
    /\ validated.kind = "InvalidFormat" =>
         IsTrimOf(validated.message, final_message)

\* " \nFEAT(api): oops \n" is rejected with the message "FEAT(api): oops".
C16_Witness ==
  /\ pc = "validate_ret" /\ validated.kind = "InvalidFormat"
  /\ final_message = <<32, 10, 70, 69, 65, 84, 40, 97, 112, 105, 41, 58, 32, 111, 111, 112, 115, 32, 10>>
  /\ validated.message = <<70, 69, 65, 84, 40, 97, 112, 105, 41, 58, 32, 111, 111, 112, 115>>

\* C17: whenever validate(x) succeeds the text of the returned value is x
\* trimmed, exactly: nothing is rewritten and a multi-line input keeps all
\* its lines.
C17_ValidatedTextIsTrimmedInput ==
  (pc = "validate_ret" /\ validated.tag = "Ok") =>
    IsTrimOf(as_str(validated), final_message)

\* U+00A0 "fix(api): x\n\nbody: y" " \n" keeps both lines.
C17_Witness ==
  /\ pc = "validate_ret" /\ validated.tag = "Ok"
  /\ final_message = <<194, 160>> \o <<102, 105, 120, 40, 97, 112, 105, 41, 58, 32, 120, 10, 10, 98, 111, 100, 121, 58, 32, 121, 32, 10>>
  /\ as_str(validated) = <<102, 105, 120, 40, 97, 112, 105, 41, 58, 32, 120, 10, 10, 98, 111, 100, 121, 58, 32, 121>>

\* The first start marker of x is at p.
FirstStart(x, p) ==
  /\ HasAt(x, p, MarkerStart)
  /\ \A k \in 1..(p - 1) : ~HasAt(x, k, MarkerStart)

\* The first end marker of x after a start marker at p is at q.
FirstEndAfter(x, p, q) ==
  /\ HasAt(x, q, MarkerEnd)
  /\ \A k \in (p + Len(MarkerStart))..(q - 1) : ~HasAt(x, k, MarkerEnd)

\* The text of x between a start marker at p and an end marker at q.
Between(x, p, q) == SubSeq(x, p + Len(MarkerStart), q - 1)

\* t has nothing for stages 2 to 5 to act on: no fence, no opening thinking
\* tag, no run of three newlines, and it does not begin with a preamble
\* phrase.
Plain(t) ==
  /\ \A k \in 1..Len(t) :
       /\ ~HasAt(t, k, Fence)
       /\ ~HasAt(t, k, ThinkingOpen)
       /\ ~HasAt(t, k, <<10, 10, 10>>)
  /\ \A w \in {PreambleHereIs, PreambleHeres, PreambleTheCommitMessage,
              PreambleCommitMessage} : FoldedEnd(t, 1, w, 1) = 0

\* C18 as stated: for every input with a start marker followed later by an
\* end marker, clean returns exactly the text between the first such pair,
\* trimmed, whatever precedes or follows the markers and whatever the text
\* between them contains.
C18_Original ==
  pc = "clean_ret" =>
    \A p \in 1..Len(raw_response) :
      FirstStart(raw_response, p) =>
        \A q \in (p + Len(MarkerStart))..Len(raw_response) :
          FirstEndAfter(raw_response, p, q) =>
            IsTrimOf(cleaned, Between(raw_response, p, q))

\* C18 (amended): for every input with a start marker followed later by an
\* end marker, what precedes the first start marker and what follows the
\* first end marker after it has no effect: clean returns what clean returns
\* for the text between them alone, which is that text, trimmed, whenever it
\* holds no fence, no thinking tag, no run of three newlines and no leading
\* preamble.
C18_MarkersSelectInnerText ==
  pc = "clean_ret" =>
    \A p \in 1..Len(raw_response) :
      FirstStart(raw_response, p) =>
        \A q \in (p + Len(MarkerStart))..Len(raw_response) :
          FirstEndAfter(raw_response, p, q) =>
            /\ cleaned = clean_ai_response(Between(raw_response, p, q))
            /\ Plain(Between(raw_response, p, q)) =>
                 IsTrimOf(cleaned, Between(raw_response, p, q))

\* "Here is: " START "feat: x" END gives "feat: x"
C18_Witness ==
  /\ pc = "clean_ret"
  /\ raw_response =
      <<72, 101, 114, 101, 32, 105, 115, 58, 32, 60, 60, 60, 67, 79, 77, 77,
        73, 84, 95, 77, 69, 83, 83, 65, 71, 69, 95, 83, 84, 65, 82, 84, 62,
        62, 62, 102, 101, 97, 116, 58, 32, 120, 60, 60, 60, 67, 79, 77, 77,
        73, 84, 95, 77, 69, 83, 83, 65, 71, 69, 95, 69, 78, 68, 62, 62, 62>>
  /\ cleaned = <<102, 101, 97, 116, 58, 32, 120>>

\* C19: clean is idempotent: cleaning an already cleaned text changes
\* nothing, clean(clean(x)) = clean(x) for every x.
C19_CleanIdempotent ==
  pc = "clean_ret" => clean_ai_response(cleaned) = cleaned

\* Lengths of the maximal runs of "\n" of s from position i on, in order.
RECURSIVE RunLengths(_, _)
RunLengths(s, i) ==
  LET p == Find(s, i, <<10>>) IN
  IF p = 0 THEN <<>>
  ELSE <<NewlineRunEnd(s, p) - p>> \o RunLengths(s, NewlineRunEnd(s, p))

\* C20: the output of clean never contains three consecutive newline
\* characters; where only newline collapsing and trimming apply, each run of
\* the trimmed input is kept when it has one or two newlines and becomes
\* exactly two otherwise.
C20_NoTripleNewline ==
  pc = "clean_ret" =>
    /\ \A k \in 1..Len(cleaned) : ~HasAt(cleaned, k, <<10, 10, 10>>)
    /\ (Find(raw_response, 1, MarkerStart) = 0
          /\ Find(raw_response, 1, Fence) = 0
          /\ Find(raw_response, 1, ThinkingOpen) = 0
          /\ StripPreamble(raw_response) = raw_response) =>
         LET before == RunLengths(trim(raw_response), 1) IN
         RunLengths(cleaned, 1) =
           [k \in 1..Len(before) |-> Min(before[k], 2)]

\* "feat: x" "\n\n\n" "\n" "feat: x" gives "feat: x\n\nfeat: x"
C20_Witness ==
  /\ pc = "clean_ret"
  /\ raw_response = <<102, 101, 97, 116, 58, 32, 120, 10, 10, 10, 10, 102, 101, 97, 116, 58, 32, 120>>
  /\ cleaned = <<102, 101, 97, 116, 58, 32, 120, 10, 10, 102, 101, 97, 116, 58, 32, 120>>

\* generate_commit_message has validated a message made of a cleaned
\* response that is a conventional commit on its own and a signature.
SignedValidText ==
  /\ pc \in {"gen_done", "cli_done"}
  /\ validated # NotValidated
  /\ signature.some
  /\ StartsWithGrammar(cleaned)

\* C21 as stated: whenever the cleaned response is a conventional commit on
\* its own and a signature was given, generation succeeds and returns the
\* cleaned text, two newlines and the signature, exactly.
C21_Original ==
  SignedValidText =>
    /\ genResult.tag = "Ok"
    /\ genResult.commit = cleaned \o <<10, 10>> \o signature.text

\* C21: whenever the cleaned response is a conventional commit on its own
\* and a signature was given, generation succeeds; the returned text starts
\* with the cleaned text and is the cleaned text, two newlines and the
\* signature with the white space at its end removed, which is all three
\* unchanged when the signature does not end in white space.
C21_SignatureNeverInvalidates ==
  SignedValidText =>
    /\ genResult.tag = "Ok"
    /\ IsPrefix(cleaned, genResult.commit)
    /\ IsTrimOf(genResult.commit, cleaned \o <<10, 10>> \o signature.text)
    /\ (signature.text # <<>>
          /\ WhiteEndingAt(signature.text, Len(signature.text)) = 0) =>
         genResult.commit = cleaned \o <<10, 10>> \o signature.text

\* A signature ending in a newline was appended to "feat: add x", and
\* generation succeeded.
C21_Witness ==
  /\ SignedValidText
  /\ cleaned = <<102, 101, 97, 116, 58, 32, 97, 100, 100, 32, 120>>
  /\ signature.text[Len(signature.text)] = 10
  /\ genResult.tag = "Ok"

\* The calls of the provider interface made so far, in order.
ProviderCalls ==
  SelectSeq(log, LAMBDA c :
    c \in {"has_staged_changes", "get_staged_diff", "commit"})

\* C22: until generate_commit_message has returned to its caller and the
\* caller has acted, on every path, the provider's commit has not been
\* called and nothing was committed; the provider calls made are
\* has_staged_changes and get_staged_diff only.
C22_GenerateNeverCommits ==
  pc # "cli_done" =>
    /\ commits = <<>>
    /\ \A i \in 1..Len(ProviderCalls) :
         ProviderCalls[i] \in {"has_staged_changes", "get_staged_diff"}

\* generate_commit_message has returned a commit to a caller that is going
\* to commit it, and nothing has been committed yet.
C22_Witness ==
  /\ pc = "gen_done"
  /\ genResult.tag = "Ok"
  /\ args.present /\ ~args.dry_run /\ ~args.message_only
  /\ ProviderCalls = <<"has_staged_changes", "get_staged_diff">>
  /\ commits = <<>>

\* What generate_commit_message returns when it runs alone and the
\* environment gives the answers a: the steps of lib.rs:65-93 in sequence.
RunAlone(a) ==
  IF a.staged = "err" THEN GenGit(a.staged_err)
  ELSE IF a.staged = "false" THEN GenGit(NoStagedChanges)
  ELSE IF ~a.diff_ok THEN GenGit(a.diff_err)
  ELSE IF a.exec.tag = "Err" THEN GenAgent(a.exec.err)
  ELSE LET text == clean_ai_response(a.exec.value)
           signed == IF a.signature.some
                       THEN text \o <<10, 10>> \o a.signature.text
                       ELSE text
           v == validate(signed)
       IN IF v.tag = "Ok" THEN GenOk(v)
          ELSE GenValidation(ValidationDisplay(v))

\* C23: with two calls of generate_commit_message interleaved in any order,
\* each call returns what it returns alone for the same provider answers and
\* agent output, its locals are changed by its own steps only, and a
\* compiled pattern, once initialised, stays initialised.
C23_ConcurrentCallsIndependent ==
  /\ [](\A i \in Invocations :
          inv[i].pc = "gen_done" => inv[i].result = RunAlone(inv[i].answers))
  /\ [][/\ patterns \subseteq patterns'
        /\ \E i \in Invocations :
             \A j \in Invocations \ {i} : inv'[j] = inv[j]]_vars

\* Both calls have returned, with different results, and each cleaned its
\* response while the other was between its own cleaning and validation.
C23_Witness ==
  /\ \A i \in Invocations : inv[i].pc = "gen_done"
  /\ inv[1].result.tag = "Ok"
  /\ inv[2].result.tag = "Validation"
  /\ inv[1].cleaned # inv[2].cleaned

\* The first p bytes of d are whole characters: the last byte among them
\* that starts a character starts one that ends at p.
WholeCharacters(d, p) ==
  \/ p = 0
  \/ \E q \in 1..p :
       /\ ~IsCont(d[q])
       /\ \A k \in (q + 1)..p : IsCont(d[k])
       /\ q + Utf8Width(d[q]) - 1 = p

CheckFailed == cause \in {"which_failed", "not_on_path"}

\* C25: the availability check succeeds if and only if the agent's
\* executable is resolvable on the search path; it fails, with NotFound,
\* exactly when the executable is not resolvable and for no other reason.
C25_AvailableIffResolvable ==
  /\ CheckPassed => onPath
  /\ CheckFailed => ~onPath /\ execResult = Err(NotFound(agent))
  /\ (ExecReturned /\ onPath) => CheckPassed

\* x has no start marker, so that marker extraction leaves it as it is.
NoMarkers(x) == \A k \in 1..Len(x) : ~HasAt(x, k, MarkerStart)

\* The openers of a fenced block: "```", "```\n", "```text\n".
FenceOpeners == {Fence, Fence \o <<10>>, Fence \o <<116, 101, 120, 116, 10>>}

\* x is a fenced block that starts with the preamble pre after the opener
\* open: the rest of the block is plain text and nothing but white space
\* follows its closing fence.  FencedBody is that rest.
FencedBodyStart(x, open, pre) == SkipWhite(x, Len(open) + Len(pre) + 1)
FencedBodyEnd(x, open, pre) == Find(x, FencedBodyStart(x, open, pre), Fence) - 1
FencedBody(x, open, pre) ==
  SubSeq(x, FencedBodyStart(x, open, pre), FencedBodyEnd(x, open, pre))
FencedPreamble(x, open, pre) ==
  /\ HasAt(x, 1, open \o pre)
  /\ NoMarkers(x)
  /\ FencedBodyEnd(x, open, pre) >= 0
  /\ AllWhite(From(x, FencedBodyEnd(x, open, pre) + 1 + Len(Fence)))
  /\ Plain(FencedBody(x, open, pre))

\* x begins with a thinking block, and right after its closing tag the
\* preamble pre starts text that has no fence, thinking tag or triple
\* newline.  AfterThinking is the position after the closing tag.
AfterThinking(x) == Find(x, 1, ThinkingClose) + Len(ThinkingClose)
ThinkingThenPreamble(x, pre) ==
  /\ HasAt(x, 1, ThinkingOpen)
  /\ Find(x, 1, ThinkingClose) # 0
  /\ HasAt(x, AfterThinking(x), pre)
  /\ NoMarkers(x)
  /\ Find(x, 1, Fence) = 0
  /\ Find(x, AfterThinking(x), ThinkingOpen) = 0
  /\ Find(x, AfterThinking(x), <<10, 10, 10>>) = 0

\* C26: the result of clean is marker extraction, fence unwrapping, preamble
\* stripping at the start of the text, thinking-block removal, newline
\* collapsing and trim, applied in this order, each to the output of the one
\* before.  So a preamble that starts the content of a fenced block that
\* starts the response is removed, and a preamble in front of which only a
\* thinking block stood is kept.
C26_StagesInFixedOrder ==
  pc = "clean_ret" =>
    /\ cleaned =
         trim(CollapseNewlines(RemoveThinking(StripPreamble(
           UnwrapCodeBlocks(ExtractMarkers(raw_response), 1)), 1), 1))
    /\ \A pre \in PreambleSamples :
         /\ \A open \in FenceOpeners :
              FencedPreamble(raw_response, open, pre) =>
                IsTrimOf(cleaned, FencedBody(raw_response, open, pre))
         /\ ThinkingThenPreamble(raw_response, pre) =>
              IsTrimOf(cleaned, From(raw_response, AfterThinking(raw_response)))

\* "```\nHere is: feat: x\n```" gives "feat: x".
C26_Witness ==
  /\ pc = "clean_ret"
  /\ raw_response =
       Fence \o <<10, 72, 101, 114, 101, 32, 105, 115, 58, 32, 102, 101, 97,
                  116, 58, 32, 120, 10>> \o Fence
  /\ cleaned = <<102, 101, 97, 116, 58, 32, 120>>

\* C27: when the availability check has passed and spawning the agent then
\* fails, execute returns ExecutionFailed with the agent's identity and the
\* text of the spawn error, not NotFound; generate_commit_message returns
\* that error, and neither the lookup nor an agent process is running.
C27_SpawnFailureIsExecutionFailed ==
  cause = "spawn_error" =>
    /\ CheckPassed /\ onPath
    /\ child.spawn_error \in SpawnErrors
    /\ execResult = Err(ExecutionFailed(agent, child.spawn_error))
    /\ execResult.err.kind # "NotFound"
    /\ child.state = "none"
    /\ which = "exited"
    /\ AgentSpawns = <<>>
    /\ pc = "gen_done" =>
         genResult = GenAgent(ExecutionFailed(agent, child.spawn_error))

\* Codex passed the check, the spawn failed with "No such file or
\* directory", and generate_commit_message has returned.
C27_Witness ==
  /\ cause = "spawn_error"
  /\ agent = "Codex"
  /\ child.spawn_error = ENOENT
  /\ pc = "gen_done"
  /\ genResult.agent_err.stderr = ENOENT

\* C28: the generate command calls the provider's commit exactly when
\* generation succeeded and neither --dry-run nor --message-only is set, then
\* once and with the validated message text; otherwise commit is never
\* called, and after a generation error the command fails.
C28_CommitOnlyOnPlainSuccess ==
  /\ Len(commits) <= 1
  /\ pc = "cli_done" =>
       IF genResult.tag = "Ok" /\ ~args.dry_run /\ ~args.message_only
         THEN /\ Len(commits) = 1
              /\ validated.tag = "Ok"
              /\ commits[1].message = as_str(validated)
              /\ Cardinality(Positions("commit")) = 1
              /\ (cliResult = "ok") <=> commits[1].ok
         ELSE /\ commits = <<>>
              /\ Positions("commit") = {}
              /\ genResult.tag # "Ok" => cliResult \notin {CliNone, "ok"}
              /\ genResult.tag = "Ok" => cliResult = "ok"

\* The command has committed a signed message generated by Gemini.
C28_Witness ==
  /\ pc = "cli_done"
  /\ agent = "Gemini"
  /\ cliResult = "ok"
  /\ Len(commits) = 1
  /\ commits[1].ok
  /\ commits[1].message = genResult.commit
  /\ IsPrefix(<<102, 101, 97, 116, 58, 32, 97, 100, 100, 32, 120, 10, 10,
                240, 159, 164, 150>>, genResult.commit)

\* The configuration file install_lefthook works on exists, can be read and
\* names a prepare-commit-msg hook.
ExistingHook ==
  /\ pc = "hook_call"
  /\ files[config_path(files)].exists
  /\ files[config_path(files)].readable
  /\ HasHook(files[config_path(files)].content)

\* C29: when the existing Lefthook configuration file already contains a
\* prepare-commit-msg hook, install_lefthook returns Ok and leaves every
\* configuration file as it was: nothing is added and nothing is rewritten.
C29_ExistingHookLeftUnchanged ==
  [][ExistingHook => (hookResult' = "Ok" /\ files' = files)]_vars

\* C30: when generate_commit_message returns Ok, the cleaned response on
\* its own, before any signature was appended, is a valid conventional
\* commit; success is never owed to the text of the signature.
C30_SuccessNotDueToSignature ==
  (pc = "gen_done" /\ genResult.tag = "Ok") => validate(cleaned).tag = "Ok"

====
